---------------------------- MODULE Spec2Model ----------------------------
(***************************************************************************)
(* Chicken Coop Controller: door motion state machine, lock pulse engines, *)
(* relay override arbitration, event store, state reducer and the main     *)
(* loop's sleep gate, modelled from the firmware sources.                  *)
(*                                                                         *)
(* Time.  uptime_millis() is a uint32_t millisecond counter.  now_ms holds *)
(* it as its signed residue in a window around the counter's wrap-around   *)
(* point: a negative value v stands for 2^32 + v, and 0 is the value the   *)
(* counter takes when it wraps (and at uptime_init).  Inside the window    *)
(* the clock only grows, so the unsigned difference (uint32_t)(a - b) of a *)
(* later reading a and an earlier reading b is a - b.                      *)
(***************************************************************************)
EXTENDS Integers, Sequences, FiniteSets, TLC

VARIABLES
    now_ms,            \* uptime_millis(), see above
    g_cfg,             \* g_cfg: the mechanical timing fields
    g_motion,          \* door_state_machine.cpp: g_motion
    g_settled_state,   \* door_state_machine.cpp: g_settled_state
    g_motion_t0_ms,    \* door_state_machine.cpp: g_motion_t0_ms
    hw,                \* H-bridge pins of door (PORTF) and lock (PORTA), lock bolt
    obs,               \* history of the door calls (observation only)
    lock_g_state,      \* lock_state_machine.cpp: g_state
    lock_g_t0_ms,      \* lock_state_machine.cpp: g_t0_ms
    lock_g_settled,    \* lock_state_machine.cpp: g_settled_state
    lock_hw,           \* lock H-bridge pins as driven through lock_hw_*
    lock_obs,          \* history of the lock state machine's calls (observation only)
    pulse,             \* lock_pulse(): position, arguments, local ms, time energized
    porta,             \* PORTA bits LOCK_EN, LOCK_INA, LOCK_INB (door_lock_avr.cpp)
    loop_pc,           \* main(): the statement the loop is at
    in_config_mode,    \* main(): debounced CONFIG switch
    door_debounce_active,
    door_debounce_start_ms,
    g_door_event,      \* latched by ISR(INT1_vect), consumed by the loop
    EIMSK,             \* external interrupt mask bits INT0, INT1
    lines,             \* input lines: door switch, RTC alarm; whether the RTC time is set
    rtc_epoch,         \* rtc_get_epoch(): UTC epoch seconds, 0 while the RTC is not set
    relay1_state, relay2_state,
    relay1_last_override_time, relay2_last_override_time,
    relay_hw,          \* the latching relays' coils as last pulsed
    relay_obs,         \* the last relay call and the manual overrides (observation only)
    g_cfg_events,      \* g_cfg.events: the sparse event table
    g_schedule_etag,   \* the counter schedule_touch() bumps and schedule_etag() reads
    store_obs,         \* the last event-store call and what it found (observation only)
    red_in,            \* arguments of state_reducer_run
    rs,                \* struct reduced_state, once the reducer has run
    wake_in,           \* now_minute and the answer of scheduler_next_event_minute
    wake,              \* the minute handed to rtc_alarm_set_minute_of_day
    res,               \* resolve_when: its arguments and, once called, its result
    led,               \* led_state_machine.cpp: its statics, and the LED channel driven
    rtc,               \* the RTC: oscillator-stop flag clear, minutes counted, alarm 1
    g_loc,             \* g_cfg: latitude_e4, longitude_e4, tz, honor_dst
    sched,             \* main(): last_minute, last_etag, last_y/mo/d, have_sol, sol
    it,                \* what the current loop iteration has done (observation only)
    since,             \* what has changed since the last evaluation (observation only)
    ap,                \* the last run of schedule_apply and what it did (observation only)
    press              \* the current press of the door switch (observation only)

doorVars == <<g_motion, g_settled_state, g_motion_t0_ms, hw, obs>>
lockVars == <<lock_g_state, lock_g_t0_ms, lock_g_settled, lock_hw, lock_obs>>

pulseVars == <<pulse, porta>>

loopVars == <<loop_pc, in_config_mode, door_debounce_active, door_debounce_start_ms,
              g_door_event, EIMSK, lines>>

relayVars == <<rtc_epoch, relay1_state, relay2_state, relay1_last_override_time,
               relay2_last_override_time, relay_hw, relay_obs>>

storeVars == <<g_cfg_events, g_schedule_etag, store_obs>>
reducerVars == <<red_in, rs>>
wakeVars == <<wake_in, wake>>
resolveVars == <<res>>
ledVars == <<led>>
mainVars == <<rtc, g_loc, sched, it, since>>
applyVars == <<ap>>
switchVars == <<press>>
lateVars == <<resolveVars, ledVars, mainVars, applyVars, switchVars>>
schedVars == <<storeVars, reducerVars, wakeVars, lateVars>>

vars == <<now_ms, g_cfg, doorVars, lockVars, pulseVars, loopVars, relayVars,
          storeVars, reducerVars, wakeVars, lateVars>>

notClock == <<g_cfg, doorVars, lockVars, pulseVars, loopVars, relayVars, schedVars>>
notDoor == <<g_cfg, lockVars, pulseVars, loopVars, relayVars, schedVars>>
notLock == <<g_cfg, doorVars, pulseVars, loopVars, relayVars, schedVars>>
notPulse == <<now_ms, g_cfg, doorVars, lockVars, loopVars, relayVars, schedVars>>
notLoop == <<g_cfg, obs, lockVars, pulseVars, relayVars, schedVars>>
notRelay == <<now_ms, g_cfg, doorVars, lockVars, pulseVars, loopVars,
              storeVars, reducerVars, wakeVars, lateVars>>
notStore == <<now_ms, g_cfg, doorVars, lockVars, pulseVars, loopVars, relayVars,
              reducerVars, wakeVars, lateVars>>
notReducer == <<now_ms, g_cfg, doorVars, lockVars, pulseVars, loopVars, relayVars,
                storeVars, wakeVars, lateVars>>
notWake == <<now_ms, g_cfg, doorVars, lockVars, pulseVars, loopVars, relayVars,
             storeVars, reducerVars, lateVars>>
earlyVars == <<g_cfg, doorVars, lockVars, pulseVars, loopVars, relayVars,
               storeVars, reducerVars, wakeVars>>
notResolve == <<now_ms, earlyVars, ledVars, mainVars, applyVars, switchVars>>
\* What no step of the scheduling loop writes.
schedFixed == <<g_cfg, obs, lockVars, pulseVars, door_debounce_active,
                door_debounce_start_ms, g_door_event, EIMSK, lines, rtc_epoch,
                relay1_last_override_time, relay2_last_override_time, relay_obs,
                store_obs, red_in, resolveVars, applyVars, switchVars>>
doorSm == <<g_motion, g_settled_state, g_motion_t0_ms, hw>>
relayOut == <<relay1_state, relay2_state, relay_hw>>

(***************************************************************************)
(* Bounds of the model                                                     *)
(***************************************************************************)
\* Resolution of the modelled uptime clock, in milliseconds.
StepMs == 100
\* Clock steps before the counter's wrap at which a run starts.
PreWrapSteps == 1
\* Clock steps after the wrap at which the clock stops.
MaxSteps == 18
\* Clock steps left to a run of the applier.
ApplySteps == 7
\* Clock steps left to a run of the alarm wake.
AlarmSteps == 3

StartMs == 0 - (PreWrapSteps * StepMs)
MaxNowMs == MaxSteps * StepMs

(***************************************************************************)
(* Program constants                                                       *)
(***************************************************************************)
DOOR_REVERSAL_DELAY_MS == 100
SETTLE_MIN_MS == 250
SETTLE_MAX_MS == 5000
LOCK_MAX_PULSE_MS == 1500

\* Values of the configuration the runs are drawn from (uint16_t fields).
TravelChoices == {1000}
SettleChoices == {50, 300}
PulseChoices  == {500}

DevStates == {"DEV_STATE_UNKNOWN", "DEV_STATE_OFF", "DEV_STATE_ON"}
Motions == {"DOOR_IDLE_UNKNOWN", "DOOR_IDLE_OPEN", "DOOR_IDLE_CLOSED",
            "DOOR_MOVING_OPEN", "DOOR_MOVING_CLOSE", "DOOR_POSTCLOSE_LOCK"}

\* (uint32_t)(a - b) for readings a, b of the uptime counter with b not later
\* than a (see the header).
U32Sub(a, b) == a - b

(***************************************************************************)
(* Hardware: door H-bridge (door_avr.cpp), lock H-bridge                   *)
(* (door_lock_avr.cpp).  lock_pos is the bolt: where the last completed    *)
(* pulse drove it.  drove_locked and dir_hot record, for the intermediate  *)
(* pin states inside one call, that the door motor was enabled while the   *)
(* bolt was not released, and that a direction pin was written while the   *)
(* bridge's enable was high.                                               *)
(***************************************************************************)
HwBoot == [door_en |-> 0, door_ina |-> 0, door_inb |-> 0,
           lock_en |-> 0, lock_ina |-> 0, lock_inb |-> 0,
           lock_pos |-> "unknown",
           drove_locked |-> FALSE, dir_hot |-> FALSE]

\* "Disable power first, then neutralize direction": two port writes.
door_hw_stop(h) ==
    LET h1 == [h EXCEPT !.door_en = 0]
    IN  [h1 EXCEPT !.door_ina = 0, !.door_inb = 0,
                   !.dir_hot = @ \/ (h1.door_en = 1
                                      /\ (h1.door_ina # 0 \/ h1.door_inb # 0))]

door_hw_set_open_dir(h) ==
    [h EXCEPT !.door_inb = 0, !.door_ina = 1,
              !.dir_hot = @ \/ (h.door_en = 1 /\ (h.door_ina # 1 \/ h.door_inb # 0))]

door_hw_set_close_dir(h) ==
    [h EXCEPT !.door_ina = 0, !.door_inb = 1,
              !.dir_hot = @ \/ (h.door_en = 1 /\ (h.door_ina # 0 \/ h.door_inb # 1))]

door_hw_enable(h) ==
    [h EXCEPT !.door_en = 1,
              !.drove_locked = @ \/ (h.lock_pos # "released")]

\* door_lock_stop(): "Disable power first", then the direction pins.
door_lock_stop(h) ==
    LET h1 == [h EXCEPT !.lock_en = 0]
    IN  [h1 EXCEPT !.lock_ina = 0, !.lock_inb = 0,
                   !.dir_hot = @ \/ (h1.lock_en = 1
                                      /\ (h1.lock_ina # 0 \/ h1.lock_inb # 0))]

\* The pulse length lock_pulse() settles on: the configured value under the cap.
pulse_len_uncapped(cfg_ms) ==
    IF cfg_ms = 0 THEN LOCK_MAX_PULSE_MS ELSE cfg_ms

pulse_len(cfg_ms) ==
    IF cfg_ms = 0 \/ cfg_ms > LOCK_MAX_PULSE_MS THEN LOCK_MAX_PULSE_MS ELSE cfg_ms

\* lock_pulse(ina, inb) as one blocking call: stop, direction, enable, wait
\* pulse_len milliseconds, stop.  The bolt follows the direction driven.
lock_pulse(h, ina, inb) ==
    LET h1 == door_lock_stop(h)
        h2 == [h1 EXCEPT !.lock_ina = ina, !.lock_inb = inb,
                         !.dir_hot = @ \/ (h1.lock_en = 1
                                            /\ (h1.lock_ina # ina \/ h1.lock_inb # inb))]
        h3 == [h2 EXCEPT !.lock_en = 1,
                         !.lock_pos = IF ina = 1 /\ inb = 0 THEN "engaged"
                                      ELSE IF ina = 0 /\ inb = 1 THEN "released"
                                      ELSE @]
    IN  door_lock_stop(h3)

door_lock_engage(h) == lock_pulse(h, 1, 0)

door_lock_release_skip(h) == h
door_lock_release(h) == lock_pulse(h, 0, 1)

door_stop(h) == door_hw_stop(h)

(***************************************************************************)
(* Door state machine (door_state_machine.cpp)                             *)
(***************************************************************************)
door_settle_ms_raw == g_cfg.door_settle_ms

door_settle_ms ==
    IF g_cfg.door_settle_ms < SETTLE_MIN_MS THEN SETTLE_MIN_MS
    ELSE IF g_cfg.door_settle_ms > SETTLE_MAX_MS THEN SETTLE_MAX_MS
    ELSE g_cfg.door_settle_ms

\* No call of door_sm_toggle() since the last other call.
NoToggle == [called |-> FALSE, motion |-> "DOOR_IDLE_UNKNOWN",
             settled |-> "DEV_STATE_UNKNOWN", t0 |-> 0, now |-> 0, hw |-> HwBoot]

ObsBoot == [target |-> "DEV_STATE_UNKNOWN",
            ticked |-> FALSE, first |-> 0,
            armed |-> FALSE, arm |-> 0,
            stopped |-> FALSE, stop |-> 0,
            reached |-> FALSE, reach |-> 0,
            last |-> 0,
            off |-> FALSE, off_t |-> 0,
            tog |-> NoToggle]

\* door_sm_init(), run by device_init() at boot.
DoorBoot ==
    /\ g_motion = "DOOR_IDLE_UNKNOWN"
    /\ g_settled_state = "DEV_STATE_UNKNOWN"
    /\ g_motion_t0_ms = 0
    /\ hw = door_stop(door_lock_stop(HwBoot))
    /\ obs = ObsBoot

\* The hardware sequence of door_sm_request(): stop, release the lock, set
\* the direction, enable.
request_hw_hot(h, state) ==
    LET h1 == door_lock_release(h)
    IN  IF state = "DEV_STATE_ON"
        THEN door_hw_enable(door_hw_set_open_dir(h1))
        ELSE door_hw_enable(door_hw_set_close_dir(h1))

request_hw(h, state) ==
    LET h1 == door_lock_release(door_stop(h))
    IN  IF state = "DEV_STATE_ON"
        THEN door_hw_enable(door_hw_set_open_dir(h1))
        ELSE door_hw_enable(door_hw_set_close_dir(h1))

\* door_sm_request without "g_settled_state = DEV_STATE_UNKNOWN".
door_sm_request_keeps_settled(state) ==
    IF state # "DEV_STATE_ON" /\ state # "DEV_STATE_OFF"
    THEN UNCHANGED <<g_motion, g_settled_state, g_motion_t0_ms, hw>>
    ELSE /\ g_motion_t0_ms' = 0
         /\ UNCHANGED g_settled_state
         /\ hw' = request_hw(hw, state)
         /\ g_motion' = IF state = "DEV_STATE_ON" THEN "DOOR_MOVING_OPEN"
                        ELSE "DOOR_MOVING_CLOSE"

door_sm_request(state) ==
    IF state # "DEV_STATE_ON" /\ state # "DEV_STATE_OFF"
    THEN UNCHANGED <<g_motion, g_settled_state, g_motion_t0_ms, hw>>
    ELSE /\ g_motion_t0_ms' = 0
         /\ g_settled_state' = "DEV_STATE_UNKNOWN"
         /\ hw' = request_hw(hw, state)
         /\ g_motion' = IF state = "DEV_STATE_ON" THEN "DOOR_MOVING_OPEN"
                        ELSE "DOOR_MOVING_CLOSE"

\* The travel timer has run out (both MOVING cases).
travel_done(t) == U32Sub(t, g_motion_t0_ms) >= g_cfg.door_travel_ms

\* The settle window is still open (POSTCLOSE_LOCK).
settling(t) == U32Sub(t, g_motion_t0_ms) < door_settle_ms

door_sm_tick(t) ==
    CASE g_motion = "DOOR_MOVING_OPEN" ->
            IF g_motion_t0_ms = 0
            THEN /\ g_motion_t0_ms' = t
                 /\ UNCHANGED <<g_motion, g_settled_state, hw>>
            ELSE IF travel_done(t)
            THEN /\ hw' = door_stop(hw)
                 /\ g_motion_t0_ms' = 0
                 /\ g_settled_state' = "DEV_STATE_ON"
                 /\ g_motion' = "DOOR_IDLE_OPEN"
            ELSE UNCHANGED <<g_motion, g_settled_state, g_motion_t0_ms, hw>>
      [] g_motion = "DOOR_MOVING_CLOSE" ->
            IF g_motion_t0_ms = 0
            THEN /\ g_motion_t0_ms' = t
                 /\ UNCHANGED <<g_motion, g_settled_state, hw>>
            ELSE IF travel_done(t)
            THEN /\ hw' = door_stop(hw)
                 /\ g_motion_t0_ms' = t
                 /\ g_motion' = "DOOR_POSTCLOSE_LOCK"
                 /\ UNCHANGED g_settled_state
            ELSE UNCHANGED <<g_motion, g_settled_state, g_motion_t0_ms, hw>>
      [] g_motion = "DOOR_POSTCLOSE_LOCK" ->
            IF settling(t)
            THEN UNCHANGED <<g_motion, g_settled_state, g_motion_t0_ms, hw>>
            ELSE /\ hw' = door_lock_engage(hw)
                 /\ g_motion_t0_ms' = 0
                 /\ g_settled_state' = "DEV_STATE_OFF"
                 /\ g_motion' = "DOOR_IDLE_CLOSED"
      [] OTHER -> UNCHANGED <<g_motion, g_settled_state, g_motion_t0_ms, hw>>

door_sm_get_state == g_settled_state

door_sm_get_motion == g_motion

toggle_target_unknown_opens(prev) ==
    CASE prev = "DOOR_IDLE_OPEN"    -> "DEV_STATE_OFF"
      [] prev = "DOOR_IDLE_CLOSED"  -> "DEV_STATE_ON"
      [] prev = "DOOR_IDLE_UNKNOWN" -> "DEV_STATE_ON"
      [] prev = "DOOR_MOVING_OPEN"  -> "DEV_STATE_OFF"
      [] prev = "DOOR_MOVING_CLOSE" -> "DEV_STATE_ON"
      [] OTHER -> "DEV_STATE_UNKNOWN"

\* The target door_sm_toggle() picks from the motion state it finds.
toggle_target(prev) ==
    CASE prev = "DOOR_IDLE_OPEN"    -> "DEV_STATE_OFF"
      [] prev = "DOOR_IDLE_CLOSED"  -> "DEV_STATE_ON"
      [] prev = "DOOR_IDLE_UNKNOWN" -> "DEV_STATE_OFF"
      [] prev = "DOOR_MOVING_OPEN"  -> "DEV_STATE_OFF"
      [] prev = "DOOR_MOVING_CLOSE" -> "DEV_STATE_ON"
      [] OTHER -> "DEV_STATE_UNKNOWN"

\* The dead-time loop of door_sm_toggle(): spin until the uptime read is at
\* least DOOR_REVERSAL_DELAY_MS past the first read; the clock moves in StepMs.
RECURSIVE toggle_wait(_, _)
toggle_wait(t0, t) ==
    IF U32Sub(t, t0) < DOOR_REVERSAL_DELAY_MS THEN toggle_wait(t0, t + StepMs) ELSE t

\* door_sm_toggle(): ignored in POSTCLOSE_LOCK; else hard stop, timer reset,
\* dead-time, then door_sm_request(target), which stops and resets again.
door_sm_toggle ==
    IF g_motion = "DOOR_POSTCLOSE_LOCK" \/ toggle_target(g_motion) = "DEV_STATE_UNKNOWN"
    THEN UNCHANGED <<g_motion, g_settled_state, g_motion_t0_ms, hw, now_ms>>
    ELSE /\ now_ms' = toggle_wait(now_ms, now_ms)
         /\ g_motion_t0_ms' = 0
         /\ g_settled_state' = "DEV_STATE_UNKNOWN"
         /\ hw' = request_hw(door_stop(hw), toggle_target(g_motion))
         /\ g_motion' = IF toggle_target(g_motion) = "DEV_STATE_ON"
                        THEN "DOOR_MOVING_OPEN" ELSE "DOOR_MOVING_CLOSE"

(***************************************************************************)
(* Lock state machine (lock_state_machine.cpp), tick-driven                *)
(***************************************************************************)
LOCK_PULSE_MS == 500

LockHwBoot == [en |-> 0, ina |-> 0, inb |-> 0]

lock_hw_stop(l) == [l EXCEPT !.en = 0, !.ina = 0, !.inb = 0]

lock_hw_set_lock_dir(l) == [l EXCEPT !.inb = 0, !.ina = 1]

lock_hw_set_unlock_dir(l) == [l EXCEPT !.ina = 0, !.inb = 1]

lock_hw_enable(l) == [l EXCEPT !.en = 1]

\* lock_hw_engage() / lock_hw_release(): direction, then enable.
lock_hw_engage(l) == lock_hw_enable(lock_hw_set_lock_dir(l))

lock_hw_release(l) == lock_hw_enable(lock_hw_set_unlock_dir(l))

LockObsBoot == [started |-> FALSE, t_start |-> 0, last_call |-> "init", t_end |-> 0]

\* lock_sm_init()
LockBoot ==
    /\ lock_g_state = "LOCK_STATE_IDLE"
    /\ lock_g_t0_ms = 0
    /\ lock_g_settled = "DEV_STATE_UNKNOWN"
    /\ lock_hw = lock_hw_stop(LockHwBoot)
    /\ lock_obs = LockObsBoot

lock_sm_engage ==
    IF lock_g_state # "LOCK_STATE_IDLE"
    THEN UNCHANGED <<lock_g_state, lock_g_t0_ms, lock_g_settled, lock_hw>>
    ELSE /\ lock_hw' = lock_hw_engage(lock_hw)
         /\ lock_g_state' = "LOCK_STATE_ENGAGING"
         /\ lock_g_t0_ms' = 0
         /\ UNCHANGED lock_g_settled

lock_sm_release ==
    IF lock_g_state # "LOCK_STATE_IDLE"
    THEN UNCHANGED <<lock_g_state, lock_g_t0_ms, lock_g_settled, lock_hw>>
    ELSE /\ lock_hw' = lock_hw_release(lock_hw)
         /\ lock_g_state' = "LOCK_STATE_RELEASING"
         /\ lock_g_t0_ms' = 0
         /\ UNCHANGED lock_g_settled

lock_sm_tick(t) ==
    IF lock_g_state = "LOCK_STATE_IDLE"
    THEN UNCHANGED <<lock_g_state, lock_g_t0_ms, lock_g_settled, lock_hw>>
    ELSE IF lock_g_t0_ms = 0
    THEN /\ lock_g_t0_ms' = t
         /\ UNCHANGED <<lock_g_state, lock_g_settled, lock_hw>>
    ELSE IF U32Sub(t, lock_g_t0_ms) >= LOCK_PULSE_MS
    THEN /\ lock_hw' = lock_hw_stop(lock_hw)
         /\ lock_g_settled' = IF lock_g_state = "LOCK_STATE_ENGAGING" THEN "DEV_STATE_ON"
                              ELSE IF lock_g_state = "LOCK_STATE_RELEASING" THEN "DEV_STATE_OFF"
                              ELSE lock_g_settled
         /\ lock_g_state' = "LOCK_STATE_IDLE"
         /\ lock_g_t0_ms' = 0
    ELSE UNCHANGED <<lock_g_state, lock_g_t0_ms, lock_g_settled, lock_hw>>

lock_sm_busy == lock_g_state # "LOCK_STATE_IDLE"

\* Observation: when the pulse in progress was started, and the last call.
LockObsStart(call) ==
    IF lock_g_state = "LOCK_STATE_IDLE"
    THEN [started |-> TRUE, t_start |-> now_ms, last_call |-> call, t_end |-> lock_obs.t_end]
    ELSE [lock_obs EXCEPT !.last_call = call]

LockEngage ==
    /\ lock_sm_engage
    /\ lock_obs' = LockObsStart("engage")
    /\ UNCHANGED <<now_ms, notLock>>

LockRelease ==
    /\ lock_sm_release
    /\ lock_obs' = LockObsStart("release")
    /\ UNCHANGED <<now_ms, notLock>>

LockTick ==
    /\ lock_sm_tick(now_ms)
    /\ lock_obs' = [lock_obs EXCEPT !.last_call = "tick", !.t_end = now_ms]
    /\ UNCHANGED <<now_ms, notLock>>


(***************************************************************************)
(* Door device adapter (door_device.cpp) and the calls a run is made of    *)
(***************************************************************************)
door_get_state == door_sm_get_state

door_set_state(state) ==
    IF state = "DEV_STATE_ON" \/ state = "DEV_STATE_OFF"
    THEN door_sm_request(state)
    ELSE UNCHANGED <<g_motion, g_settled_state, g_motion_t0_ms, hw>>

\* door_sm_schedule(state, when): the scheduled request is a plain request.
door_sm_schedule(state, when) == door_sm_request(state)

door_schedule_state(state, when) ==
    IF state = "DEV_STATE_ON" \/ state = "DEV_STATE_OFF"
    THEN door_sm_schedule(state, when)
    ELSE UNCHANGED <<g_motion, g_settled_state, g_motion_t0_ms, hw>>

door_busy ==
    ~(door_sm_get_motion \in {"DOOR_IDLE_UNKNOWN", "DOOR_IDLE_CLOSED", "DOOR_IDLE_OPEN"})

\* Observation: the direction last commanded and the ticks since then; off
\* and off_t, the tick since then that found the motor enabled and left it
\* disabled; tog, the state a call of door_sm_toggle() found, while that
\* call is the latest call.
ObsCommand(state) ==
    IF state = "DEV_STATE_ON" \/ state = "DEV_STATE_OFF"
    THEN [ObsBoot EXCEPT !.target = state, !.last = obs.last]
    ELSE [obs EXCEPT !.tog = NoToggle]

ObsTick(t) ==
    IF obs.target = "DEV_STATE_UNKNOWN" THEN [obs EXCEPT !.last = t, !.tog = NoToggle]
    ELSE [obs EXCEPT
            !.last = t,
            !.tog = NoToggle,
            !.ticked = TRUE,
            !.first = IF obs.ticked THEN @ ELSE t,
            !.armed = @ \/ t # 0,
            !.arm = IF ~obs.armed /\ t # 0 THEN t ELSE @,
            !.stopped = @ \/ (obs.armed /\ U32Sub(t, obs.arm) >= g_cfg.door_travel_ms),
            !.stop = IF ~obs.stopped /\ obs.armed
                        /\ U32Sub(t, obs.arm) >= g_cfg.door_travel_ms
                     THEN t ELSE @,
            !.reached = @ \/ (obs.ticked /\ U32Sub(t, obs.first) >= g_cfg.door_travel_ms),
            !.reach = IF ~obs.reached /\ obs.ticked
                         /\ U32Sub(t, obs.first) >= g_cfg.door_travel_ms
                      THEN t ELSE @]

\* Time passes: the next reading of uptime_millis() is one clock step later.
Elapse ==
    /\ now_ms + StepMs <= MaxNowMs
    /\ now_ms' = now_ms + StepMs
    /\ UNCHANGED notClock

DoorRequest ==
    \E state \in DevStates :
        /\ door_set_state(state)
        /\ obs' = ObsCommand(state)
        /\ UNCHANGED <<now_ms, notDoor>>

DoorSchedule ==
    \E state \in DevStates :
        /\ door_schedule_state(state, 0)
        /\ obs' = ObsCommand(state)
        /\ UNCHANGED <<now_ms, notDoor>>

DoorToggle ==
    /\ toggle_wait(now_ms, now_ms) <= MaxNowMs
    /\ door_sm_toggle
    /\ obs' = [(IF g_motion = "DOOR_POSTCLOSE_LOCK" THEN obs
                ELSE ObsCommand(toggle_target(g_motion)))
               EXCEPT !.tog = [called |-> TRUE, motion |-> g_motion,
                               settled |-> g_settled_state, t0 |-> g_motion_t0_ms,
                               now |-> now_ms, hw |-> hw]]
    /\ UNCHANGED notDoor

\* device_tick(now_ms) with now_ms = uptime_millis().
DoorTick ==
    /\ door_sm_tick(now_ms)
    /\ obs' = [ObsTick(now_ms) EXCEPT
                 !.off = @ \/ (hw.door_en = 1 /\ hw'.door_en = 0),
                 !.off_t = IF hw.door_en = 1 /\ hw'.door_en = 0 THEN now_ms ELSE @]
    /\ UNCHANGED <<now_ms, notDoor>>

(***************************************************************************)
(* The blocking lock pulse, statement by statement (door_lock_avr.cpp).    *)
(* pulse.on_ms is the time LOCK_EN has been high since the call began.     *)
(***************************************************************************)
PulseCapChoices == {0, 1, 500, 1500, 1501, 65535}

\* door_lock_init(): pins are outputs, then door_lock_stop().
PulseBoot ==
    /\ pulse = [pc |-> "idle", ina |-> 0, inb |-> 0, ms |-> 0, on_ms |-> 0, calls |-> 0]
    /\ porta = [en |-> 0, ina |-> 0, inb |-> 0]

\* _delay_ms(d): d milliseconds pass; they count as energized when EN is high.
Delay(d) == [pulse EXCEPT !.on_ms = IF porta.en = 1 THEN @ + d ELSE @]

\* door_lock_engage() / door_lock_release(): enter lock_pulse(ina, inb).
PulseCall ==
    /\ pulse.pc = "idle"
    /\ \E dir \in {<<1, 0>>, <<0, 1>>} :
          pulse' = [pc |-> "stop_en", ina |-> dir[1], inb |-> dir[2],
                    ms |-> 0, on_ms |-> 0, calls |-> 1]
    /\ UNCHANGED <<porta, notPulse>>

\* door_lock_stop(), first write: clear LOCK_EN (entry and exit of lock_pulse).
PulseStopEn ==
    /\ pulse.pc \in {"stop_en", "exit_en"}
    /\ porta' = [porta EXCEPT !.en = 0]
    /\ pulse' = [pulse EXCEPT !.pc = IF pulse.pc = "stop_en" THEN "stop_dir" ELSE "exit_dir"]
    /\ UNCHANGED notPulse

\* door_lock_stop(), second write: clear LOCK_INA and LOCK_INB.
PulseStopDir ==
    /\ pulse.pc \in {"stop_dir", "exit_dir"}
    /\ porta' = [porta EXCEPT !.ina = 0, !.inb = 0]
    /\ pulse' = [pulse EXCEPT !.pc = IF pulse.pc = "stop_dir" THEN "dead_time" ELSE "idle"]
    /\ UNCHANGED notPulse

\* _delay_ms(5)
PulseDeadTime ==
    /\ pulse.pc = "dead_time"
    /\ pulse' = [Delay(5) EXCEPT !.pc = "set_ina"]
    /\ UNCHANGED <<porta, notPulse>>

PulseSetIna ==
    /\ pulse.pc = "set_ina"
    /\ porta' = [porta EXCEPT !.ina = pulse.ina]
    /\ pulse' = [pulse EXCEPT !.pc = "set_inb"]
    /\ UNCHANGED notPulse

PulseSetInb ==
    /\ pulse.pc = "set_inb"
    /\ porta' = [porta EXCEPT !.inb = pulse.inb]
    /\ pulse' = [pulse EXCEPT !.pc = "length"]
    /\ UNCHANGED notPulse

\* uint16_t ms = g_cfg.lock_pulse_ms, bounded by the cap.
PulseLength ==
    /\ pulse.pc = "length"
    /\ pulse' = [pulse EXCEPT !.ms = pulse_len(g_cfg.lock_pulse_ms), !.pc = "enable"]
    /\ UNCHANGED <<porta, notPulse>>

PulseEnable ==
    /\ pulse.pc = "enable"
    /\ porta' = [porta EXCEPT !.en = 1]
    /\ pulse' = [pulse EXCEPT !.pc = "wait"]
    /\ UNCHANGED notPulse

\* while (ms--) _delay_ms(1);
PulseWait ==
    /\ pulse.pc = "wait"
    /\ pulse' = IF pulse.ms # 0
                THEN [Delay(1) EXCEPT !.ms = pulse.ms - 1]
                ELSE [pulse EXCEPT !.ms = (pulse.ms - 1) % 65536, !.pc = "exit_en"]
    /\ UNCHANGED <<porta, notPulse>>

(***************************************************************************)
(* The main loop (main_firmware.cpp), the two external interrupt service   *)
(* routines and the sleep entry (system_sleep_avr.cpp).  The loop is cut   *)
(* into steps at every read or write of what an ISR or an input line can   *)
(* change; an ISR runs between any two steps.                              *)
(***************************************************************************)
DOOR_DEBOUNCE_MS == 20

\* After system_sleep_init() and the declarations at the head of main().
LoopBoot ==
    /\ loop_pc = "top"
    /\ in_config_mode = FALSE
    /\ door_debounce_active = FALSE
    /\ door_debounce_start_ms = 0
    /\ g_door_event = 0
    /\ EIMSK = [int0 |-> 1, int1 |-> 1]
    /\ lines = [door_sw |-> FALSE, rtc_int |-> FALSE, rtc_set |-> TRUE]

gpio_door_sw_is_asserted == lines.door_sw

gpio_rtc_int_is_asserted == lines.rtc_int

\* devices_busy(): the door device is the only one with an is_busy hook.
devices_busy == door_busy

\* The sleep gate without devices_busy().
sleep_gate_no_devices == in_config_mode \/ door_debounce_active \/ g_door_event = 1

\* The sleep gate: TRUE when the loop must stay awake.
sleep_gate ==
    in_config_mode \/ devices_busy \/ door_debounce_active \/ g_door_event = 1

\* An unmasked external interrupt whose line is low is taken before the loop
\* executes its next statement (interrupts are enabled throughout the loop).
irq_pending ==
    \/ (EIMSK.int1 = 1 /\ gpio_door_sw_is_asserted)
    \/ (EIMSK.int0 = 1 /\ gpio_rtc_int_is_asserted)

\* ISR(INT1_vect): low level on the door switch line while INT1 is unmasked.
ISR_INT1 ==
    /\ EIMSK.int1 = 1
    /\ gpio_door_sw_is_asserted
    /\ EIMSK' = [EIMSK EXCEPT !.int1 = 0]
    /\ g_door_event' = 1
    /\ loop_pc' = IF loop_pc = "asleep" THEN "woke" ELSE loop_pc
    /\ UNCHANGED <<in_config_mode, door_debounce_active, door_debounce_start_ms, lines,
                   now_ms, doorVars, g_cfg, lockVars, pulseVars, relayVars, schedVars>>

\* ISR(INT0_vect): low level on the RTC alarm line while INT0 is unmasked.
ISR_INT0 ==
    /\ EIMSK.int0 = 1
    /\ gpio_rtc_int_is_asserted
    /\ EIMSK' = [EIMSK EXCEPT !.int0 = 0]
    /\ loop_pc' = IF loop_pc = "asleep" THEN "woke" ELSE loop_pc
    /\ UNCHANGED <<in_config_mode, door_debounce_active, door_debounce_start_ms, lines,
                   g_door_event, now_ms, doorVars, g_cfg, lockVars, pulseVars, relayVars, schedVars>>

\* The door switch is pressed or released.
DoorSwitchChanges ==
    /\ lines' = [lines EXCEPT !.door_sw = ~@]
    /\ UNCHANGED <<loop_pc, in_config_mode, door_debounce_active, door_debounce_start_ms,
                   g_door_event, EIMSK, now_ms, doorVars, g_cfg, lockVars, pulseVars, relayVars, schedVars>>

\* The RTC alarm matches and pulls its line low.
RtcAlarmFires ==
    /\ lines.rtc_set
    /\ ~lines.rtc_int
    /\ lines' = [lines EXCEPT !.rtc_int = TRUE]
    /\ UNCHANGED <<loop_pc, in_config_mode, door_debounce_active, door_debounce_start_ms,
                   g_door_event, EIMSK, now_ms, doorVars, g_cfg, lockVars, pulseVars, relayVars, schedVars>>

\* Head of the loop: now_ms = uptime_millis(), device_tick(now_ms), then the
\* CONFIG switch, which in_config_mode follows once two reads agree.
LoopTop ==
    /\ loop_pc = "top"
    /\ ~irq_pending
    /\ \E d \in {0, StepMs} :
          /\ now_ms + d <= MaxNowMs
          /\ now_ms' = now_ms + d
          /\ door_sm_tick(now_ms + d)
    /\ \E raw \in BOOLEAN : in_config_mode' = raw
    /\ loop_pc' = "latch"
    /\ UNCHANGED <<door_debounce_active, door_debounce_start_ms, g_door_event, EIMSK,
                   lines, notLoop>>

\* Door ISR latch.
LoopLatch ==
    /\ loop_pc = "latch"
    /\ ~irq_pending
    /\ IF g_door_event = 1 /\ ~door_debounce_active
       THEN /\ g_door_event' = 0
            /\ door_debounce_active' = TRUE
            /\ door_debounce_start_ms' = now_ms
       ELSE UNCHANGED <<g_door_event, door_debounce_active, door_debounce_start_ms>>
    /\ loop_pc' = "debounce"
    /\ UNCHANGED <<in_config_mode, EIMSK, lines, now_ms, doorVars, notLoop>>

debounce_expired_at_once == TRUE

\* (uint32_t)(now_ms - door_debounce_start_ms) >= 20u
debounce_expired == U32Sub(now_ms, door_debounce_start_ms) >= DOOR_DEBOUNCE_MS

\* Debounce expiry: a switch still asserted toggles the door.
debounce_block ==
    /\ loop_pc = "debounce"
    /\ ~irq_pending
    /\ IF door_debounce_active /\ debounce_expired
       THEN /\ door_debounce_active' = FALSE
            /\ IF gpio_door_sw_is_asserted
               THEN /\ toggle_wait(now_ms, now_ms) <= MaxNowMs
                    /\ door_sm_toggle
               ELSE UNCHANGED <<g_motion, g_settled_state, g_motion_t0_ms, hw, now_ms>>
       ELSE UNCHANGED <<door_debounce_active, g_motion, g_settled_state, g_motion_t0_ms,
                        hw, now_ms>>
    /\ loop_pc' = "rearm"
    /\ UNCHANGED <<in_config_mode, door_debounce_start_ms, g_door_event, EIMSK, lines>>

LoopDebounce == debounce_block /\ UNCHANGED notLoop

\* Observation: the press of the switch now under way, whether INT1 was
\* unmasked when it began, the calls of door_sm_toggle() made during it, and
\* whether every such call found the window expired and the line asserted.
SwitchBoot == press = [n |-> 0, unmasked |-> TRUE, ok |-> TRUE]

\* The door switch is pressed or released.
SwitchChanges ==
    /\ lines' = [lines EXCEPT !.door_sw = ~@]
    /\ press' = IF ~lines.door_sw
                THEN [press EXCEPT !.n = 0, !.unmasked = (EIMSK.int1 = 1)]
                ELSE press
    /\ UNCHANGED <<loop_pc, in_config_mode, door_debounce_active, door_debounce_start_ms,
                   g_door_event, EIMSK, now_ms, doorVars, g_cfg, lockVars, pulseVars,
                   relayVars, storeVars, reducerVars, wakeVars, resolveVars, ledVars,
                   mainVars, applyVars>>

SwitchDebounce ==
    /\ debounce_block
    /\ press' = IF \/ now_ms' # now_ms
                   \/ g_motion' # g_motion
                   \/ (door_debounce_active /\ ~door_debounce_active'
                         /\ gpio_door_sw_is_asserted)
                THEN [press EXCEPT
                        !.n = IF @ < 2 THEN @ + 1 ELSE @,
                        !.ok = /\ @
                               /\ gpio_door_sw_is_asserted
                               /\ U32Sub(now_ms, door_debounce_start_ms)
                                     >= DOOR_DEBOUNCE_MS]
                ELSE press
    /\ UNCHANGED <<g_cfg, obs, lockVars, pulseVars, relayVars, storeVars, reducerVars,
                   wakeVars, resolveVars, ledVars, mainVars, applyVars>>


\* INT1 is unmasked again once the switch is released and debounce is over.
LoopRearm ==
    /\ loop_pc = "rearm"
    /\ ~irq_pending
    /\ EIMSK' = IF ~gpio_door_sw_is_asserted /\ ~door_debounce_active
                THEN [EIMSK EXCEPT !.int1 = 1] ELSE EIMSK
    /\ loop_pc' = "sched"
    /\ UNCHANGED <<in_config_mode, door_debounce_active, door_debounce_start_ms,
                   g_door_event, lines, now_ms, doorVars, notLoop>>

\* RTC check, then the scheduler block: on a minute or schedule change the
\* applier may command the door to the state the reducer chose.
LoopSchedule ==
    /\ loop_pc = "sched"
    /\ ~irq_pending
    /\ IF ~lines.rtc_set
       THEN /\ loop_pc' = "top"
            /\ UNCHANGED <<g_motion, g_settled_state, g_motion_t0_ms, hw>>
       ELSE /\ loop_pc' = "gate"
            /\ \/ UNCHANGED <<g_motion, g_settled_state, g_motion_t0_ms, hw>>
               \/ \E state \in {"DEV_STATE_ON", "DEV_STATE_OFF"} :
                     door_schedule_state(state, 0)
    /\ UNCHANGED <<in_config_mode, door_debounce_active, door_debounce_start_ms,
                   g_door_event, EIMSK, lines, now_ms, notLoop>>

\* A pass over the scheduler block in which the applier commands nothing.
SwitchSchedule ==
    /\ LoopSchedule
    /\ UNCHANGED <<g_motion, g_settled_state, g_motion_t0_ms, hw>>

\* Sleep only in RUN mode, with idle devices and no door event in flight.
LoopGate ==
    /\ loop_pc = "gate"
    /\ ~irq_pending
    /\ loop_pc' = IF sleep_gate THEN "top" ELSE "arm"
    /\ UNCHANGED <<in_config_mode, door_debounce_active, door_debounce_start_ms,
                   g_door_event, EIMSK, lines, now_ms, doorVars, notLoop>>

\* rtc_alarm_set_minute_of_day(wake_min): clears the alarm flag, sets the alarm.
LoopArm ==
    /\ loop_pc = "arm"
    /\ ~irq_pending
    /\ lines' = [lines EXCEPT !.rtc_int = FALSE]
    /\ loop_pc' = "sleep_entry"
    /\ UNCHANGED <<in_config_mode, door_debounce_active, door_debounce_start_ms,
                   g_door_event, EIMSK, now_ms, doorVars, notLoop>>

\* system_sleep_until(): with interrupts off, return if a wake line is already
\* low; else sei and sleep_cpu, which no interrupt can separate.
system_sleep_until ==
    /\ loop_pc = "sleep_entry"
    /\ ~irq_pending
    /\ loop_pc' = IF gpio_rtc_int_is_asserted \/ gpio_door_sw_is_asserted
                  THEN "woke" ELSE "asleep"
    /\ UNCHANGED <<in_config_mode, door_debounce_active, door_debounce_start_ms,
                   g_door_event, EIMSK, lines, now_ms, doorVars, notLoop>>

\* After the wake: clear the RTC flag, unmask INT0, unmask INT1 if released.
LoopWake ==
    /\ loop_pc = "woke"
    /\ ~irq_pending
    /\ lines' = [lines EXCEPT !.rtc_int = FALSE]
    /\ EIMSK' = [int0 |-> 1,
                 int1 |-> IF ~gpio_door_sw_is_asserted THEN 1 ELSE EIMSK.int1]
    /\ loop_pc' = "top"
    /\ UNCHANGED <<in_config_mode, door_debounce_active, door_debounce_start_ms,
                   g_door_event, now_ms, doorVars, notLoop>>

(***************************************************************************)
(* Relay devices (relay_device.cpp): two latching relays, each with its    *)
(* own state and its own manual-override time.                             *)
(***************************************************************************)
MaxEpoch == 3

rtc_get_epoch == rtc_epoch

\* relay1_set() / relay1_reset(): pulse the coil; any other state pulses nothing.
relay_pulse(coil, state) ==
    IF state = "DEV_STATE_ON" THEN "set"
    ELSE IF state = "DEV_STATE_OFF" THEN "reset"
    ELSE coil

relay1_set_state_internal(state) ==
    IF state = relay1_state
    THEN UNCHANGED <<relay1_state, relay_hw>>
    ELSE /\ relay1_state' = state
         /\ relay_hw' = [relay_hw EXCEPT !.k1 = relay_pulse(@, state)]

relay1_set_state(state) ==
    /\ relay1_last_override_time' = rtc_get_epoch
    /\ relay1_set_state_internal(state)

relay1_stale_strict(when) == when < relay1_last_override_time

relay1_stale(when) == when <= relay1_last_override_time

relay1_schedule_state(state, when) ==
    IF relay1_stale(when)
    THEN UNCHANGED <<relay1_state, relay_hw, relay1_last_override_time>>
    ELSE /\ relay1_set_state_internal(state)
         /\ UNCHANGED relay1_last_override_time

relay2_set_state_internal(state) ==
    IF state = relay2_state
    THEN UNCHANGED <<relay2_state, relay_hw>>
    ELSE /\ relay2_state' = state
         /\ relay_hw' = [relay_hw EXCEPT !.k2 = relay_pulse(@, state)]

relay2_set_state(state) ==
    /\ relay2_last_override_time' = rtc_get_epoch
    /\ relay2_set_state_internal(state)

relay2_stale(when) == when <= relay2_last_override_time

\* A scheduled change that stamped the override time as a manual one does.
relay2_schedule_state_stamps(state, when) ==
    IF relay2_stale(when)
    THEN UNCHANGED <<relay2_state, relay_hw, relay2_last_override_time>>
    ELSE /\ relay2_set_state_internal(state)
         /\ relay2_last_override_time' = rtc_get_epoch

relay2_schedule_state(state, when) ==
    IF relay2_stale(when)
    THEN UNCHANGED <<relay2_state, relay_hw, relay2_last_override_time>>
    ELSE /\ relay2_set_state_internal(state)
         /\ UNCHANGED relay2_last_override_time

\* The last call with its arguments and, for each relay, the epoch at which
\* its last manual set_state was made.
RelayObs(r, call, state, when) ==
    [r |-> r, call |-> call, state |-> state, when |-> when,
     t0_1 |-> IF r = 1 /\ call = "set" THEN rtc_epoch ELSE relay_obs.t0_1,
     t0_2 |-> IF r = 2 /\ call = "set" THEN rtc_epoch ELSE relay_obs.t0_2]

\* relay_device_init() at epoch e: both relays forced OFF by a manual set.
RelayInit(e) ==
    /\ rtc_epoch = e
    /\ relay1_state = "DEV_STATE_OFF"
    /\ relay2_state = "DEV_STATE_OFF"
    /\ relay1_last_override_time = e
    /\ relay2_last_override_time = e
    /\ relay_hw = [k1 |-> "reset", k2 |-> "reset"]
    /\ relay_obs = [r |-> 0, call |-> "init", state |-> "DEV_STATE_OFF", when |-> 0,
                    t0_1 |-> e, t0_2 |-> e]

RelayBoot == RelayInit(0)

\* The RTC is set, or a second passes.
EpochAdvance ==
    /\ rtc_epoch < MaxEpoch
    /\ rtc_epoch' = rtc_epoch + 1
    /\ UNCHANGED <<relay1_state, relay2_state, relay1_last_override_time,
                   relay2_last_override_time, relay_hw, relay_obs, notRelay>>

Relay1Set ==
    \E state \in DevStates :
        /\ relay1_set_state(state)
        /\ relay_obs' = RelayObs(1, "set", state, 0)
        /\ UNCHANGED <<rtc_epoch, relay2_state, relay2_last_override_time, notRelay>>

Relay1Schedule ==
    \E state \in DevStates, when \in 0..(MaxEpoch + 1) :
        /\ relay1_schedule_state(state, when)
        /\ relay_obs' = RelayObs(1, "schedule", state, when)
        /\ UNCHANGED <<rtc_epoch, relay2_state, relay2_last_override_time, notRelay>>

Relay2Set ==
    \E state \in DevStates :
        /\ relay2_set_state(state)
        /\ relay_obs' = RelayObs(2, "set", state, 0)
        /\ UNCHANGED <<rtc_epoch, relay1_state, relay1_last_override_time, notRelay>>

Relay2Schedule ==
    \E state \in DevStates, when \in 0..(MaxEpoch + 1) :
        /\ relay2_schedule_state(state, when)
        /\ relay_obs' = RelayObs(2, "schedule", state, when)
        /\ UNCHANGED <<rtc_epoch, relay1_state, relay1_last_override_time, notRelay>>

(***************************************************************************)
(* Events (events.h) and the time resolver (resolve_when.cpp)              *)
(***************************************************************************)
MINUTES_PER_DAY == 1440
STATE_REDUCER_MAX_DEVICES == 8

\* The capacity of the event table (MAX_EVENTS in config_events.h), scaled down.
MAX_EVENTS == 3

Slots == 1..MAX_EVENTS

\* memset(&event, 0, sizeof event): ACTION_OFF and REF_NONE are the zero enumerators.
ZeroEvent ==
    [device_id |-> 0, action |-> 0,
     when |-> [ref |-> "REF_NONE", offset_minutes |-> 0], refnum |-> 0]

\* A null Event pointer.
NullEvent == [null |-> TRUE]

NoSol == [have |-> FALSE, sunrise_std |-> 0, sunset_std |-> 0,
          sunrise_civ |-> 0, sunset_civ |-> 0]

c_rem_none(a, b) == a

\* The C remainder: truncation toward zero, the sign of the dividend.
c_rem(a, b) == IF a >= 0 THEN a % b ELSE 0 - ((0 - a) % b)

resolve_base(ref, sol) ==
    CASE ref = "REF_MIDNIGHT"       -> 0
      [] ref = "REF_SOLAR_STD_RISE" -> sol.sunrise_std
      [] ref = "REF_SOLAR_STD_SET"  -> sol.sunset_std
      [] ref = "REF_SOLAR_CIV_RISE" -> sol.sunrise_civ
      [] ref = "REF_SOLAR_CIV_SET"  -> sol.sunset_civ
      [] OTHER -> 0

normalise_minute_skip(t) == t

\* "if (t < 0) t += 1440"
normalise_minute(t) == IF t < 0 THEN t + MINUTES_PER_DAY ELSE t

\* resolve_when(when, sol, &minute): [ok, minute]
\* resolve_when without the "if (!sol) return false" of the solar cases.
resolve_when_no_sol_check(when, sol) ==
    IF when.ref \notin {"REF_MIDNIGHT", "REF_SOLAR_STD_RISE", "REF_SOLAR_STD_SET",
                        "REF_SOLAR_CIV_RISE", "REF_SOLAR_CIV_SET"}
    THEN [ok |-> FALSE, minute |-> 0]
    ELSE LET t == c_rem(resolve_base(when.ref, sol) + when.offset_minutes, MINUTES_PER_DAY)
         IN  [ok |-> TRUE, minute |-> normalise_minute(t)]

resolve_when(when, sol) ==
    IF when.ref \notin {"REF_MIDNIGHT", "REF_SOLAR_STD_RISE", "REF_SOLAR_STD_SET",
                        "REF_SOLAR_CIV_RISE", "REF_SOLAR_CIV_SET"}
    THEN [ok |-> FALSE, minute |-> 0]
    ELSE IF when.ref # "REF_MIDNIGHT" /\ ~sol.have
    THEN [ok |-> FALSE, minute |-> 0]
    ELSE LET t == c_rem(resolve_base(when.ref, sol) + when.offset_minutes, MINUTES_PER_DAY)
         IN  [ok |-> TRUE, minute |-> normalise_minute(t)]

(***************************************************************************)
(* Event store (config_events.cpp) and the schedule ETag                   *)
(***************************************************************************)
MaxEtag == 4

\* schedule_touch(): bumps the ETag.
schedule_touch(etag) == etag + 1

schedule_etag == g_schedule_etag

slots_with_loose(events, ref) ==
    {i \in Slots : IF ref = 0 THEN events[i].refnum = 0 ELSE events[i].refnum # 0}

\* The slots a lookup by refnum or a search for a free slot can land on.
slots_with(events, ref) == {i \in Slots : events[i].refnum = ref}

last_slot(S) == CHOOSE i \in S : \A j \in S : i >= j

first_slot(S) == CHOOSE i \in S : \A j \in S : i <= j

\* config_events_get(&count): the number of used slots; the table is returned as is.
config_events_get == Cardinality({i \in Slots : g_cfg_events[i].refnum # 0})

\* What config_events_delete_by_refnum leaves in the slot it clears.
deleted_slot_lazy(ev) == [ev EXCEPT !.refnum = 0]

deleted_slot(ev) == ZeroEvent

\* Each mutator yields [ok, events, etag].
config_events_add(ev) ==
    IF ev = NullEvent \/ slots_with(g_cfg_events, 0) = {}
    THEN [ok |-> FALSE, events |-> g_cfg_events, etag |-> g_schedule_etag]
    ELSE LET i == first_slot(slots_with(g_cfg_events, 0))
         IN  [ok |-> TRUE,
              events |-> [g_cfg_events EXCEPT ![i] = [ev EXCEPT !.refnum = i]],
              etag |-> schedule_touch(g_schedule_etag)]

\* update_by_refnum storing the caller's event as it comes, refnum included.
config_events_update_verbatim(ref, ev) ==
    IF ev = NullEvent \/ ref = 0 \/ slots_with(g_cfg_events, ref) = {}
    THEN [ok |-> FALSE, events |-> g_cfg_events, etag |-> g_schedule_etag]
    ELSE LET i == first_slot(slots_with(g_cfg_events, ref))
         IN  [ok |-> TRUE,
              events |-> [g_cfg_events EXCEPT ![i] = ev],
              etag |-> schedule_touch(g_schedule_etag)]

config_events_update_by_refnum(ref, ev) ==
    IF ev = NullEvent \/ ref = 0 \/ slots_with(g_cfg_events, ref) = {}
    THEN [ok |-> FALSE, events |-> g_cfg_events, etag |-> g_schedule_etag]
    ELSE LET i == first_slot(slots_with(g_cfg_events, ref))
         IN  [ok |-> TRUE,
              events |-> [g_cfg_events EXCEPT ![i] = [ev EXCEPT !.refnum = ref]],
              etag |-> schedule_touch(g_schedule_etag)]

config_events_delete_by_refnum(ref) ==
    IF ref = 0 \/ slots_with(g_cfg_events, ref) = {}
    THEN [ok |-> FALSE, events |-> g_cfg_events, etag |-> g_schedule_etag]
    ELSE LET i == first_slot(slots_with(g_cfg_events, ref))
         IN  [ok |-> TRUE,
              events |-> [g_cfg_events EXCEPT ![i] = deleted_slot(@)],
              etag |-> schedule_touch(g_schedule_etag)]

config_events_clear_silent ==
    [ok |-> TRUE, events |-> [i \in Slots |-> ZeroEvent], etag |-> g_schedule_etag]

config_events_clear ==
    [ok |-> TRUE, events |-> [i \in Slots |-> ZeroEvent],
     etag |-> schedule_touch(g_schedule_etag)]

\* Events a caller passes in; the refnum field it carries is the caller's own.
StoreSamples ==
    {[device_id |-> 1, action |-> 1,
      when |-> [ref |-> "REF_MIDNIGHT", offset_minutes |-> 10], refnum |-> 0],
     [device_id |-> 4, action |-> 0,
      when |-> [ref |-> "REF_SOLAR_STD_SET", offset_minutes |-> -5], refnum |-> 9]}

\* A cleared table, untouched schedule.
StoreBoot ==
    /\ g_cfg_events = [i \in Slots |-> ZeroEvent]
    /\ g_schedule_etag = 0
    /\ store_obs = [op |-> "boot", ok |-> TRUE, etag |-> 0,
                    events |-> [i \in Slots |-> ZeroEvent], count |-> 0,
                    ref |-> 0, ev |-> NullEvent]

\* A call with its arguments (ref 0 and the null event where it takes none),
\* the table and ETag it found, and its return value.
StoreCall(op, ref, ev, r) ==
    /\ r.etag <= MaxEtag
    /\ g_cfg_events' = r.events
    /\ g_schedule_etag' = r.etag
    /\ store_obs' = [op |-> op, ok |-> r.ok, etag |-> g_schedule_etag,
                     events |-> g_cfg_events, count |-> 0, ref |-> ref, ev |-> ev]
    /\ UNCHANGED notStore

EventsAdd ==
    \E ev \in StoreSamples \cup {NullEvent} :
        StoreCall("add", 0, ev, config_events_add(ev))

EventsUpdate ==
    \E ref \in 0..(MAX_EVENTS + 1), ev \in StoreSamples \cup {NullEvent} :
        StoreCall("update", ref, ev, config_events_update_by_refnum(ref, ev))

EventsDelete ==
    \E ref \in 0..(MAX_EVENTS + 1) :
        StoreCall("delete", ref, NullEvent, config_events_delete_by_refnum(ref))

EventsClear == StoreCall("clear", 0, NullEvent, config_events_clear)

EventsGet ==
    /\ store_obs' = [op |-> "get", ok |-> TRUE, etag |-> g_schedule_etag,
                     events |-> g_cfg_events, count |-> config_events_get,
                     ref |-> 0, ev |-> NullEvent]
    /\ UNCHANGED <<g_cfg_events, g_schedule_etag, notStore>>

(***************************************************************************)
(* State reducer (state_reducer.cpp)                                       *)
(***************************************************************************)
DeviceIds == 0..(STATE_REDUCER_MAX_DEVICES - 1)

\* memset(out, 0, sizeof *out) and have_minute cleared.
ReducerClear ==
    [has_action  |-> [d \in DeviceIds |-> FALSE],
     action      |-> [d \in DeviceIds |-> 0],
     when        |-> [d \in DeviceIds |-> 0],
     best_minute |-> [d \in DeviceIds |-> 0],
     have_minute |-> [d \in DeviceIds |-> FALSE]]

\* "Ignore future intent"
is_future_never(minute, now_minute) == FALSE

is_future(minute, now_minute) == minute > now_minute

\* The loop body with "minute > best_minute": the earlier slot keeps a tie.
reduce_slot_first_wins(acc, ev, sol, now_minute, today_epoch_midnight) ==
    IF ev.refnum = 0 THEN acc
    ELSE IF ev.device_id >= STATE_REDUCER_MAX_DEVICES THEN acc
    ELSE LET r == resolve_when(ev.when, sol)
             d == ev.device_id
         IN  IF ~r.ok THEN acc
             ELSE IF is_future(r.minute, now_minute) THEN acc
             ELSE IF ~acc.have_minute[d] \/ r.minute > acc.best_minute[d]
             THEN [has_action  |-> [acc.has_action EXCEPT ![d] = TRUE],
                   action      |-> [acc.action EXCEPT ![d] = ev.action],
                   when        |-> [acc.when EXCEPT ![d] = today_epoch_midnight + r.minute * 60],
                   best_minute |-> [acc.best_minute EXCEPT ![d] = r.minute],
                   have_minute |-> [acc.have_minute EXCEPT ![d] = TRUE]]
             ELSE acc

\* One pass of the loop body over slot ev.
reduce_slot(acc, ev, sol, now_minute, today_epoch_midnight) ==
    IF ev.refnum = 0 THEN acc
    ELSE IF ev.device_id >= STATE_REDUCER_MAX_DEVICES THEN acc
    ELSE LET r == resolve_when(ev.when, sol)
             d == ev.device_id
         IN  IF ~r.ok THEN acc
             ELSE IF is_future(r.minute, now_minute) THEN acc
             ELSE IF ~acc.have_minute[d] \/ r.minute >= acc.best_minute[d]
             THEN [has_action  |-> [acc.has_action EXCEPT ![d] = TRUE],
                   action      |-> [acc.action EXCEPT ![d] = ev.action],
                   when        |-> [acc.when EXCEPT ![d] = today_epoch_midnight + r.minute * 60],
                   best_minute |-> [acc.best_minute EXCEPT ![d] = r.minute],
                   have_minute |-> [acc.have_minute EXCEPT ![d] = TRUE]]
             ELSE acc

RECURSIVE reduce_loop(_, _, _, _, _, _, _)
reduce_loop(acc, events, i, table_size, sol, now_minute, today_epoch_midnight) ==
    IF i > table_size THEN acc
    ELSE reduce_loop(reduce_slot(acc, events[i], sol, now_minute, today_epoch_midnight),
                     events, i + 1, table_size, sol, now_minute, today_epoch_midnight)

\* state_reducer_run(events, table_size, sol, now_minute, today_epoch_midnight, out)
state_reducer_run(events, table_size, sol, now_minute, today_epoch_midnight) ==
    LET acc == reduce_loop(ReducerClear, events, 1, table_size, sol, now_minute,
                           today_epoch_midnight)
    IN  [done |-> TRUE, has_action |-> acc.has_action, action |-> acc.action,
         when |-> acc.when]

\* Slot contents the reducer is tried on: an empty slot, an unused slot that
\* still carries data, events of devices 1 and 4 around the sampled minutes,
\* one wrapping below midnight, a solar one, a disabled one, a device id
\* beyond the reducer's arrays, a second event of device 1 at minute 10 with
\* the other action, and one whose reference is no enumerator.
mk_event(device_id, action, ref, offset_minutes, refnum) ==
    [device_id |-> device_id, action |-> action,
     when |-> [ref |-> ref, offset_minutes |-> offset_minutes], refnum |-> refnum]

ReducerSamples ==
    {ZeroEvent,
     mk_event(1, 1, "REF_MIDNIGHT", 10, 0),
     mk_event(1, 1, "REF_MIDNIGHT", 10, 1),
     mk_event(1, 0, "REF_MIDNIGHT", 20, 2),
     mk_event(1, 1, "REF_MIDNIGHT", -10, 3),
     mk_event(4, 1, "REF_MIDNIGHT", 20, 4),
     mk_event(1, 0, "REF_SOLAR_STD_RISE", -5, 5),
     mk_event(1, 1, "REF_NONE", 10, 6),
     mk_event(9, 1, "REF_MIDNIGHT", 10, 7),
     mk_event(1, 0, "REF_MIDNIGHT", 10, 8),
     mk_event(4, 0, "REF_INVALID", 20, 9)}

SolSamples ==
    {NoSol,
     [have |-> TRUE, sunrise_std |-> 20, sunset_std |-> 1000,
      sunrise_civ |-> 0, sunset_civ |-> 1030]}

NowSamples == {0, 10, 15, 20, 1439}

ReducerBoot ==
    /\ red_in = [events |-> [i \in Slots |-> ZeroEvent], sol |-> NoSol,
                 now_minute |-> 0, today_epoch_midnight |-> 0]
    /\ rs = [done |-> FALSE, has_action |-> ReducerClear.has_action,
             action |-> ReducerClear.action, when |-> ReducerClear.when]

ReducerRun ==
    /\ ~rs.done
    /\ rs' = state_reducer_run(red_in.events, MAX_EVENTS, red_in.sol, red_in.now_minute,
                               red_in.today_epoch_midnight)
    /\ UNCHANGED <<red_in, notReducer>>

(***************************************************************************)
(* The wake minute (main_firmware.cpp)                                     *)
(***************************************************************************)
next_minute(now_min) == (now_min + 1) % MINUTES_PER_DAY

target_is_past_strict(now_min, target_min) == target_min < now_min

target_is_past(now_min, target_min) == target_min <= now_min

strictly_future_minute(now_min, target_min) ==
    IF target_is_past(now_min, target_min) THEN next_minute(now_min) ELSE target_min

\* scheduler_next_event_minute(&next_min): [has, minute], as the scheduler answers.
scheduler_next_event_minute == [has |-> wake_in.has_next, minute |-> wake_in.next_min]

\* The wake minute for the scheduler's answer nxt = [has, minute].
wake_min_of(now_minute, nxt) ==
    IF nxt.has
    THEN strictly_future_minute(now_minute, nxt.minute)
    ELSE next_minute(now_minute)

wake_min(now_minute) == wake_min_of(now_minute, scheduler_next_event_minute)

WakeBoot ==
    /\ wake_in = [now_minute |-> 0, has_next |-> FALSE, next_min |-> 0]
    /\ wake = [armed |-> FALSE, minute |-> 0]

\* The minutes the scheduler may answer for a given now_minute.
NextSamples(now) ==
    {m \in {0, 1, 720, 1438, 1439, now - 1, now, now + 1} : m >= 0 /\ m < MINUTES_PER_DAY}

\* rtc_alarm_set_minute_of_day(wake_min)
WakeArm ==
    /\ ~wake.armed
    /\ wake' = [armed |-> TRUE, minute |-> wake_min(wake_in.now_minute)]
    /\ UNCHANGED <<wake_in, notWake>>

(***************************************************************************)
(* The time resolver as a function of its arguments (resolve_when.cpp)     *)
(***************************************************************************)
\* int16_t offset_minutes
INT16_MIN == 0 - 32768
INT16_MAX == 32767

\* The reference kinds, and a value of the uint8_t that is no enumerator.
TimeRefs == {"REF_NONE", "REF_MIDNIGHT", "REF_SOLAR_STD_RISE", "REF_SOLAR_STD_SET",
             "REF_SOLAR_CIV_RISE", "REF_SOLAR_CIV_SET", "REF_INVALID"}

\* Solar snapshots handed to the resolver: none, and one whose four minutes
\* sit at both ends and in the middle of the day.
ResolveSols ==
    {NoSol,
     [have |-> TRUE, sunrise_std |-> 1439, sunset_std |-> 1,
      sunrise_civ |-> 720, sunset_civ |-> 0]}

ResolveBoot ==
    res = [when |-> [ref |-> "REF_NONE", offset_minutes |-> 0], sol |-> NoSol,
           done |-> FALSE, ok |-> FALSE, minute |-> 0]

\* bool ok = resolve_when(&when, sol, &minute)
ResolveCall ==
    /\ ~res.done
    /\ res' = [res EXCEPT !.done = TRUE,
                          !.ok = resolve_when(res.when, res.sol).ok,
                          !.minute = resolve_when(res.when, res.sol).minute]
    /\ UNCHANGED notResolve

(***************************************************************************)
(* LED state machine (led_state_machine.cpp).  The software PWM carrier    *)
(* and the steps of the pulse envelope are left out: a pulsing LED is lit. *)
(***************************************************************************)
BLINK_PERIOD_MS == 250

\* The uptime counter wraps; its width is scaled down to this modulus.
UptimeWrap == 1000

\* (uint32_t)(now_ms - g_blink_t0_ms)
led_elapsed(t, t0) == (t - t0) % UptimeWrap

LedModes == {"LED_OFF", "LED_ON", "LED_BLINK", "LED_PULSE"}

\* led_apply(on, duty): the channel of g_color is driven, or both are off.
led_apply(l, on) ==
    [l EXCEPT !.out = IF ~on THEN "off"
                      ELSE IF l.g_color = "LED_GREEN" THEN "green" ELSE "red"]

led_state_machine_init ==
    [g_mode |-> "LED_OFF", g_color |-> "LED_GREEN", g_cycles_remaining |-> 0,
     g_cycle_counter |-> 0, g_blink_t0_ms |-> 0, g_led_on |-> FALSE, out |-> "off"]

led_state_machine_set(l, mode, color, count) ==
    LET l1 == [l EXCEPT !.g_mode = mode, !.g_color = color,
                        !.g_cycles_remaining = count, !.g_cycle_counter = 0,
                        !.g_blink_t0_ms = 0, !.g_led_on = FALSE]
    IN  IF mode = "LED_OFF" THEN [l1 EXCEPT !.out = "off"]
        ELSE IF mode = "LED_ON" THEN led_apply([l1 EXCEPT !.g_led_on = TRUE], TRUE)
        ELSE IF mode = "LED_PULSE" THEN [l1 EXCEPT !.g_led_on = TRUE]
        ELSE l1

led_state_machine_is_on(l) == l.g_led_on

\* A blink tick that counted the cycle on the rising edge.
led_blink_tick_rising(l, t) ==
    LET l1 == IF l.g_blink_t0_ms = 0 THEN [l EXCEPT !.g_blink_t0_ms = t] ELSE l
    IN  IF led_elapsed(t, l1.g_blink_t0_ms) >= BLINK_PERIOD_MS
        THEN LET l2 == [l1 EXCEPT !.g_led_on = ~@, !.g_blink_t0_ms = t]
             IN  IF l2.g_led_on /\ l2.g_cycles_remaining > 0
                 THEN LET l3 == [l2 EXCEPT !.g_cycle_counter = @ + 1]
                      IN  IF l3.g_cycle_counter >= l3.g_cycles_remaining
                          THEN [l3 EXCEPT !.g_mode = "LED_OFF", !.out = "off"]
                          ELSE led_apply(l3, l3.g_led_on)
                 ELSE led_apply(l2, l2.g_led_on)
        ELSE led_apply(l1, l1.g_led_on)

\* case LED_BLINK of led_state_machine_tick
led_blink_tick(l, t) ==
    LET l1 == IF l.g_blink_t0_ms = 0 THEN [l EXCEPT !.g_blink_t0_ms = t] ELSE l
    IN  IF led_elapsed(t, l1.g_blink_t0_ms) >= BLINK_PERIOD_MS
        THEN LET l2 == [l1 EXCEPT !.g_led_on = ~@, !.g_blink_t0_ms = t]
             IN  IF ~l2.g_led_on /\ l2.g_cycles_remaining > 0
                 THEN LET l3 == [l2 EXCEPT !.g_cycle_counter = @ + 1]
                      IN  IF l3.g_cycle_counter >= l3.g_cycles_remaining
                          THEN [l3 EXCEPT !.g_mode = "LED_OFF", !.out = "off"]
                          ELSE led_apply(l3, l3.g_led_on)
                 ELSE led_apply(l2, l2.g_led_on)
        ELSE led_apply(l1, l1.g_led_on)

led_state_machine_tick(l, t) ==
    CASE l.g_mode = "LED_OFF"   -> led_apply([l EXCEPT !.g_led_on = FALSE], FALSE)
      [] l.g_mode = "LED_ON"    -> led_apply([l EXCEPT !.g_led_on = TRUE], TRUE)
      [] l.g_mode = "LED_BLINK" -> led_blink_tick(l, t)
      [] l.g_mode = "LED_PULSE" -> led_apply([l EXCEPT !.g_led_on = TRUE], TRUE)
      [] OTHER -> l

\* led_get_state(), the LED device's state hook.
led_get_state == IF led_state_machine_is_on(led) THEN "DEV_STATE_ON" ELSE "DEV_STATE_OFF"

\* Cycle counts a blink is asked for; 0 asks for an endless one.
BlinkCounts == {0, 1, 2}

\* The periods, in clock steps, at which the LED is ticked.
TickGaps == {1, 2, 3}

\* led_state_machine_tick(now_ms) after some clock steps have passed.
LedTick ==
    \E k \in TickGaps :
        /\ now_ms + k * StepMs <= MaxNowMs
        /\ now_ms' = now_ms + k * StepMs
        /\ led' = led_state_machine_tick(led, now_ms + k * StepMs)
        /\ UNCHANGED <<g_cfg, doorVars, lockVars, pulseVars, loopVars, relayVars,
                       storeVars, reducerVars, wakeVars, resolveVars, mainVars,
                       applyVars, switchVars>>

\* led_state_machine_set(LED_BLINK, color, count) at any moment.
LedSet ==
    \E color \in {"LED_GREEN", "LED_RED"}, count \in BlinkCounts :
        /\ led' = led_state_machine_set(led, "LED_BLINK", color, count)
        /\ UNCHANGED <<now_ms, g_cfg, doorVars, lockVars, pulseVars, loopVars, relayVars,
                       storeVars, reducerVars, wakeVars, resolveVars, mainVars,
                       applyVars, switchVars>>

\* n ticks of the LED from l at time t, one every gap milliseconds: the LED
\* state they end in and the number of times they switched the LED on.
RECURSIVE BlinkRun(_, _, _, _, _)
BlinkRun(l, t, gap, n, ons) ==
    IF n = 0 THEN [led |-> l, ons |-> ons]
    ELSE LET m == led_state_machine_tick(l, t + gap)
         IN  BlinkRun(m, t + gap, gap, n - 1,
                      ons + (IF m.out # "off" /\ l.out = "off" THEN 1 ELSE 0))

\* device_init() runs led_state_machine_init(); main() then asks for four
\* green blinks.
LedBoot == led = led_state_machine_set(led_state_machine_init, "LED_BLINK", "LED_GREEN", 4)

(***************************************************************************)
(* The schedule applier (schedule_apply.cpp) over the device registry      *)
(* (devices.cpp): door, LED, relay 1, relay 2.                             *)
(***************************************************************************)
DEVICE_ID_DOOR == 1
DEVICE_ID_LED == 3
DEVICE_ID_RELAY1 == 4
DEVICE_ID_RELAY2 == 5

\* The ids device_enum_first / device_enum_next yield.
RegisteredIds == {DEVICE_ID_DOOR, DEVICE_ID_LED, DEVICE_ID_RELAY1, DEVICE_ID_RELAY2}

device_get_state_by_id(id) ==
    CASE id = DEVICE_ID_DOOR   -> door_get_state
      [] id = DEVICE_ID_LED    -> led_get_state
      [] id = DEVICE_ID_RELAY1 -> relay1_state
      [] id = DEVICE_ID_RELAY2 -> relay2_state
      [] OTHER -> "DEV_STATE_UNKNOWN"

\* device_tick(now_ms): door and LED have tick hooks.
device_tick(t) ==
    /\ door_sm_tick(t)
    /\ led' = led_state_machine_tick(led, t)

\* dev_state_t want = (rs->action[id] == ACTION_ON) ? DEV_STATE_ON : DEV_STATE_OFF
apply_want(r, id) == IF r.action[id] = 1 THEN "DEV_STATE_ON" ELSE "DEV_STATE_OFF"

apply_skip_never(have, want) == FALSE

\* "No-op if already correct"
apply_skip(have, want) == have = want

\* The devices the applier goes on to command: those with an action whose
\* state differs from the wanted one.
apply_pending(r) ==
    {id \in RegisteredIds :
        r.has_action[id] /\ ~apply_skip(device_get_state_by_id(id), apply_want(r, id))}

\* device_schedule_state_by_id(): the schedule_state hook, else the set_state
\* hook; the LED device has neither, so nothing is called for it.
apply_commands(r) ==
    {[id |-> id, state |-> apply_want(r, id), when |-> r.when[id]] :
        id \in apply_pending(r) \ {DEVICE_ID_LED}}

\* Relay 1 after a schedule hook that knew no override.
relay1_scheduled_always(state, when) ==
    IF state = relay1_state
    THEN [state |-> relay1_state, coil |-> relay_hw.k1]
    ELSE [state |-> state, coil |-> relay_pulse(relay_hw.k1, state)]

\* Relay 1 after relay1_schedule_state(state, when): its state and its coil.
relay1_scheduled(state, when) ==
    IF relay1_stale(when) \/ state = relay1_state
    THEN [state |-> relay1_state, coil |-> relay_hw.k1]
    ELSE [state |-> state, coil |-> relay_pulse(relay_hw.k1, state)]

relay2_scheduled(state, when) ==
    IF relay2_stale(when) \/ state = relay2_state
    THEN [state |-> relay2_state, coil |-> relay_hw.k2]
    ELSE [state |-> state, coil |-> relay_pulse(relay_hw.k2, state)]

\* schedule_apply(rs): each pending device is commanded once, in id order; a
\* device's hook writes that device's state only.
schedule_apply(r) ==
    /\ IF DEVICE_ID_DOOR \in apply_pending(r)
       THEN door_schedule_state(apply_want(r, DEVICE_ID_DOOR), r.when[DEVICE_ID_DOOR])
       ELSE UNCHANGED doorSm
    /\ LET r1 == IF DEVICE_ID_RELAY1 \in apply_pending(r)
                 THEN relay1_scheduled(apply_want(r, DEVICE_ID_RELAY1),
                                       r.when[DEVICE_ID_RELAY1])
                 ELSE [state |-> relay1_state, coil |-> relay_hw.k1]
           r2 == IF DEVICE_ID_RELAY2 \in apply_pending(r)
                 THEN relay2_scheduled(apply_want(r, DEVICE_ID_RELAY2),
                                       r.when[DEVICE_ID_RELAY2])
                 ELSE [state |-> relay2_state, coil |-> relay_hw.k2]
       IN  /\ relay1_state' = r1.state
           /\ relay2_state' = r2.state
           /\ relay_hw' = [k1 |-> r1.coil, k2 |-> r2.coil]

\* The devices whose hardware an application of r drives: the door on every
\* command (door_sm_request stops, releases the lock and restarts), a relay when
\* its coil is pulsed.
apply_actions(r) ==
    {c.id : c \in {c \in apply_commands(r) :
        \/ c.id = DEVICE_ID_DOOR
        \/ c.id = DEVICE_ID_RELAY1 /\ ~relay1_stale(c.when) /\ c.state # relay1_state
        \/ c.id = DEVICE_ID_RELAY2 /\ ~relay2_stale(c.when) /\ c.state # relay2_state}}

ApplyBoot ==
    ap = [applied |-> FALSE, r |-> ReducerClear, clean |-> FALSE, again |-> FALSE,
          redundant |-> FALSE, cmds |-> {}, acts |-> {},
          motion |-> "DOOR_IDLE_UNKNOWN", door_kept |-> TRUE]

\* A reducer output with an action for each device of acts, a function from
\* device ids to <<action, when>>.
mk_reduced(acts) ==
    [ReducerClear EXCEPT
        !.has_action = [d \in DeviceIds |-> d \in DOMAIN acts],
        !.action = [d \in DeviceIds |-> IF d \in DOMAIN acts THEN acts[d][1] ELSE 0],
        !.when = [d \in DeviceIds |-> IF d \in DOMAIN acts THEN acts[d][2] ELSE 0]]

\* Reducer outputs: the door absent, OFF or ON, with relay 1 absent or ON in a
\* phase that began at epoch 0 or after every epoch of the run; relay 2 ON;
\* the LED ON.
ApplySamples ==
    {mk_reduced(d @@ r1) :
        d \in {<<>>, DEVICE_ID_DOOR :> <<0, MaxEpoch + 1>>,
               DEVICE_ID_DOOR :> <<1, MaxEpoch + 1>>},
        r1 \in {<<>>, DEVICE_ID_RELAY1 :> <<1, 0>>,
                DEVICE_ID_RELAY1 :> <<1, MaxEpoch + 1>>}}
    \cup {mk_reduced(DEVICE_ID_RELAY2 :> <<1, MaxEpoch + 1>>),
          mk_reduced(DEVICE_ID_LED :> <<1, 0>>)}

\* schedule_apply(rs) on a reducer output, as the main loop calls it.
ApplyRun ==
    \E r \in ApplySamples :
        /\ schedule_apply(r)
        /\ rs' = r
        /\ ap' = [applied |-> TRUE, r |-> r, clean |-> TRUE,
                  again |-> ap.clean /\ ap.r = r,
                  redundant |-> \E c \in apply_commands(r) :
                                    device_get_state_by_id(c.id) = c.state,
                  cmds |-> {c.id : c \in apply_commands(r)},
                  acts |-> apply_actions(r),
                  motion |-> g_motion,
                  door_kept |-> (doorSm' = doorSm)]
        /\ UNCHANGED <<now_ms, g_cfg, obs, lockVars, pulseVars, loopVars, rtc_epoch,
                       relay1_last_override_time, relay2_last_override_time,
                       relay_obs, storeVars, red_in, wakeVars, resolveVars, ledVars,
                       mainVars, switchVars>>

\* device_tick(uptime_millis()) between two runs of the applier.
ApplyTick ==
    /\ device_tick(now_ms)
    /\ ap' = [ap EXCEPT !.clean = FALSE]
    /\ UNCHANGED <<now_ms, g_cfg, obs, lockVars, pulseVars, loopVars, relayVars, storeVars,
                   reducerVars, wakeVars, resolveVars, mainVars, switchVars>>

\* A manual relay command from the console between two runs of the applier.
ApplyManual ==
    \E state \in {"DEV_STATE_ON", "DEV_STATE_OFF"} :
        /\ relay1_set_state(state)
        /\ relay_obs' = RelayObs(1, "set", state, 0)
        /\ ap' = [ap EXCEPT !.clean = FALSE]
        /\ UNCHANGED <<now_ms, g_cfg, doorVars, lockVars, pulseVars, loopVars, rtc_epoch,
                       relay2_state, relay2_last_override_time, storeVars, reducerVars,
                       wakeVars, resolveVars, ledVars, mainVars, switchVars>>

(***************************************************************************)
(* The scheduling half of the main loop (main_firmware.cpp): RTC check,    *)
(* minute and ETag comparison, the daily solar snapshot, reducer, applier, *)
(* sleep gate and wake alarm.  The door switch is at rest here.            *)
(***************************************************************************)
\* The RTC minutes run from 23:59 of day 1 for at most this many minutes.
MaxRtcTicks == 2

RtcStart == MINUTES_PER_DAY + (MINUTES_PER_DAY - 1)

rtc_time_is_set == rtc.set

\* rtc_get_time(): the calendar date as a day number, hour and minute (UTC).
rtc_get_time ==
    [day |-> rtc.t \div MINUTES_PER_DAY,
     h |-> (rtc.t % MINUTES_PER_DAY) \div 60,
     m |-> rtc.t % 60]

minute_of_day(h, m) == h * 60 + m

\* Midnight of the day as epoch seconds, the reducer's today_epoch_midnight.
today_epoch_midnight(day) == day * 86400

\* solar_compute(y, mo, d, lat, lon, tz, &sol): sunrise and sunset of the day
\* at the place, shifted by tz hours: four minutes per degree of longitude,
\* a little with latitude and date.
solar_compute(day, lat_e4, lon_e4, tz) ==
    LET rise == 360 + day + (lat_e4 \div 10000) - (lon_e4 \div 2500) + 60 * tz
    IN  [have |-> TRUE,
         sunrise_std |-> rise % MINUTES_PER_DAY,
         sunset_std  |-> (rise + 720) % MINUTES_PER_DAY,
         sunrise_civ |-> (rise - 30) % MINUTES_PER_DAY,
         sunset_civ  |-> (rise + 750) % MINUTES_PER_DAY]

solar_tz_local(loc) == loc.tz

\* "Request solar times in UTC by forcing tz = 0."
solar_tz(loc) == 0

\* The snapshot main() computes on a date change: none at latitude and
\* longitude both 0.
day_snapshot(loc, day) ==
    IF loc.latitude_e4 # 0 \/ loc.longitude_e4 # 0
    THEN solar_compute(day, loc.latitude_e4, loc.longitude_e4, solar_tz(loc))
    ELSE NoSol

\* scheduler_next_event_minute() over a table and a snapshot: the smallest
\* resolved minute of the used slots.
next_event_minute(events, sol) ==
    LET M == {resolve_when(events[i].when, sol).minute :
                 i \in {j \in Slots : events[j].refnum # 0
                                        /\ resolve_when(events[j].when, sol).ok}}
    IN  IF M = {} THEN [has |-> FALSE, minute |-> 0]
        ELSE [has |-> TRUE, minute |-> CHOOSE m \in M : \A n \in M : m <= n]

\* scheduler_invalidate_solar(): the caches are dropped through schedule_touch().
scheduler_invalidate_solar(etag) == schedule_touch(etag)

\* Places the console sets: none (0, 0), and 30 degrees north on the meridian.
Locations ==
    {[latitude_e4 |-> 0, longitude_e4 |-> 0],
     [latitude_e4 |-> 300000, longitude_e4 |-> 0]}

\* The console commands of a run bump the ETag at most this far.
MaxSchedEtag == 2

TzChoices == {0, 0 - 6}

\* Events the console adds: relay 1 on at midnight, relay 2 on 392 minutes
\* before sunrise.
SchedSamples ==
    {mk_event(DEVICE_ID_RELAY1, 1, "REF_MIDNIGHT", 0, 0),
     mk_event(DEVICE_ID_RELAY2, 1, "REF_SOLAR_STD_RISE", 0 - 392, 0)}

ItBoot ==
    [ticked |-> FALSE, polled |-> FALSE, checked |-> FALSE, rtc_ok |-> FALSE,
     evaluated |-> FALSE, ran |-> FALSE, fresh |-> TRUE, cmds |-> {},
     seen_minute |-> FALSE, seen_etag |-> FALSE, seen_mut |-> FALSE, used |-> 0,
     prev_invalid |-> FALSE]

\* The declarations at the head of main().
SchedLocals ==
    [last_minute |-> 65535, last_etag |-> 0, last_day |-> 0 - 1,
     sol |-> NoSol, day_sol |-> NoSol, now_minute |-> 0]

MainBoot ==
    /\ rtc = [set |-> TRUE, t |-> RtcStart, alarm |-> 0, a1f |-> FALSE]
    /\ g_loc = [latitude_e4 |-> 0, longitude_e4 |-> 0, tz |-> 0, honor_dst |-> FALSE]
    /\ sched = SchedLocals
    /\ it = ItBoot
    /\ since = [minute |-> TRUE, etag |-> FALSE, mut |-> FALSE]

\* now_ms = uptime_millis(); device_tick(now_ms); the CONFIG switch.
SchedTop ==
    /\ loop_pc = "top"
    /\ device_tick(now_ms)
    /\ \E raw \in BOOLEAN : in_config_mode' = raw
    /\ it' = [ItBoot EXCEPT !.ticked = TRUE,
                            !.prev_invalid = it.checked /\ ~it.rtc_ok]
    /\ loop_pc' = "poll"
    /\ UNCHANGED <<now_ms, rtc, g_loc, sched, since, storeVars, rs, wakeVars, relayOut,
                   schedFixed>>

\* console_poll() in CONFIG mode, with no command line complete.
SchedPoll ==
    /\ loop_pc = "poll"
    /\ it' = [it EXCEPT !.polled = in_config_mode]
    /\ loop_pc' = "rtc"
    /\ UNCHANGED <<now_ms, in_config_mode, led, rtc, g_loc, sched, since, storeVars, rs,
                   wakeVars, doorSm, relayOut, schedFixed>>

\* console_poll() dispatching a command that changes the event table.
ConsoleEvents ==
    /\ loop_pc = "poll"
    /\ in_config_mode
    /\ \E r \in {config_events_add(ev) : ev \in SchedSamples}
                \cup {config_events_delete_by_refnum(1), config_events_clear} :
          /\ r.etag <= MaxSchedEtag
          /\ g_cfg_events' = r.events
          /\ g_schedule_etag' = r.etag
          /\ since' = [since EXCEPT !.etag = @ \/ r.etag # g_schedule_etag,
                                    !.mut = @ \/ r.ok]
    /\ it' = [it EXCEPT !.polled = TRUE]
    /\ loop_pc' = "rtc"
    /\ UNCHANGED <<now_ms, in_config_mode, led, rtc, g_loc, sched, store_obs, rs,
                   wakeVars, doorSm, relayOut, schedFixed>>

\* console_poll() dispatching "set lat", "set lon", "set tz" or "set dst".
ConsoleSet ==
    /\ loop_pc = "poll"
    /\ in_config_mode
    /\ schedule_touch(g_schedule_etag) <= MaxSchedEtag
    /\ \/ \E v \in {l.latitude_e4 : l \in Locations} :
             g_loc' = [g_loc EXCEPT !.latitude_e4 = v]
       \/ \E v \in {l.longitude_e4 : l \in Locations} :
             g_loc' = [g_loc EXCEPT !.longitude_e4 = v]
       \/ \E v \in TzChoices : g_loc' = [g_loc EXCEPT !.tz = v]
       \/ \E v \in BOOLEAN : g_loc' = [g_loc EXCEPT !.honor_dst = v]
    /\ g_schedule_etag' = scheduler_invalidate_solar(g_schedule_etag)
    /\ since' = [since EXCEPT !.etag = TRUE]
    /\ it' = [it EXCEPT !.polled = TRUE]
    /\ loop_pc' = "rtc"
    /\ UNCHANGED <<now_ms, in_config_mode, led, rtc, sched, g_cfg_events, store_obs, rs,
                   wakeVars, doorSm, relayOut, schedFixed>>

rtc_required_not(ok) == TRUE

\* "RTC required": the iteration goes on only when rtc_time_is_set().
rtc_required(ok) == ok

\* The RTC check; on an invalid time the LED is set to blink red and the
\* loop starts over.
SchedRtc ==
    /\ loop_pc = "rtc"
    /\ it' = [it EXCEPT !.checked = TRUE, !.rtc_ok = rtc_time_is_set]
    /\ IF rtc_required(rtc_time_is_set)
       THEN /\ loop_pc' = "eval"
            /\ UNCHANGED led
       ELSE /\ led' = led_state_machine_set(led, "LED_BLINK", "LED_RED", 0)
            /\ loop_pc' = "top"
    /\ UNCHANGED <<now_ms, in_config_mode, rtc, g_loc, sched, since, storeVars, rs,
                   wakeVars, doorSm, relayOut, schedFixed>>

sched_enter_minute_only(minute_changed, schedule_dirty) == minute_changed

\* "if (minute_changed || schedule_dirty)"
sched_enter(minute_changed, schedule_dirty) == minute_changed \/ schedule_dirty

\* What the scheduler block of this iteration does for a configuration loc:
\* whether it is entered, whether the date changed, the snapshot then held,
\* whether reducer and applier run, the reducer's output, the commands the
\* applier issues, and the wake minute the table and snapshot lead to.
EvalOut(loc) ==
    LET t == rtc_get_time
        now_minute == minute_of_day(t.h, t.m)
        cur_etag == schedule_etag
        minute_changed == now_minute # sched.last_minute
        schedule_dirty == cur_etag # sched.last_etag
        enter == sched_enter(minute_changed, schedule_dirty)
        date_changed == t.day # sched.last_day
        snap == IF enter /\ date_changed THEN day_snapshot(loc, t.day) ELSE sched.sol
        used == config_events_get
        run == enter /\ used > 0
        out == state_reducer_run(g_cfg_events, MAX_EVENTS, snap, now_minute,
                                 today_epoch_midnight(t.day))
    IN  [now_minute |-> now_minute, cur_etag |-> cur_etag, enter |-> enter,
         date_changed |-> enter /\ date_changed, day |-> t.day, snap |-> snap,
         run |-> run, used |-> used,
         out |-> IF run THEN out ELSE rs,
         cmds |-> IF run THEN apply_commands(out) ELSE {},
         wake |-> wake_min_of(now_minute, next_event_minute(g_cfg_events, snap))]

\* rtc_get_time() and the scheduler block.
SchedEval ==
    /\ loop_pc = "eval"
    /\ LET e == EvalOut(g_loc)
       IN  /\ sched' = IF e.enter
                       THEN [sched EXCEPT
                               !.last_minute = e.now_minute,
                               !.last_etag = e.cur_etag,
                               !.last_day = IF e.date_changed THEN e.day ELSE @,
                               !.sol = e.snap,
                               !.day_sol = IF e.date_changed THEN e.snap ELSE @,
                               !.now_minute = e.now_minute]
                       ELSE [sched EXCEPT !.now_minute = e.now_minute]
           /\ rs' = e.out
           /\ IF e.run THEN schedule_apply(e.out) ELSE UNCHANGED <<doorSm, relayOut>>
           /\ it' = [it EXCEPT !.evaluated = TRUE, !.ran = e.run, !.cmds = e.cmds,
                               !.fresh = (e.snap = day_snapshot(g_loc, e.day)),
                               !.seen_minute = since.minute,
                               !.seen_etag = since.etag,
                               !.seen_mut = since.mut,
                               !.used = e.used]
    /\ since' = [minute |-> FALSE, etag |-> FALSE, mut |-> FALSE]
    /\ loop_pc' = "gate"
    /\ UNCHANGED <<now_ms, in_config_mode, led, rtc, g_loc, storeVars, wakeVars,
                   schedFixed>>

\* The sleep gate; past it the alarm is armed for the wake minute and the
\* processor sleeps.
SchedGate ==
    /\ loop_pc = "gate"
    /\ IF sleep_gate
       THEN /\ loop_pc' = "top"
            /\ UNCHANGED <<rtc, wakeVars>>
       ELSE LET nxt == next_event_minute(g_cfg_events, sched.day_sol)
                w == wake_min_of(sched.now_minute, nxt)
            IN  /\ wake_in' = [now_minute |-> sched.now_minute, has_next |-> nxt.has,
                               next_min |-> nxt.minute]
                /\ wake' = [armed |-> TRUE, minute |-> w]
                /\ rtc' = [rtc EXCEPT !.alarm = w, !.a1f = FALSE]
                /\ loop_pc' = "asleep"
    /\ UNCHANGED <<now_ms, in_config_mode, led, g_loc, sched, it, since, storeVars, rs,
                   doorSm, relayOut, schedFixed>>

\* The alarm has matched: INT0 wakes the processor; the flag is cleared.
SchedWake ==
    /\ loop_pc = "asleep"
    /\ rtc.a1f
    /\ rtc' = [rtc EXCEPT !.a1f = FALSE]
    /\ loop_pc' = "top"
    /\ UNCHANGED <<now_ms, in_config_mode, led, g_loc, sched, it, since, storeVars, rs,
                   wakeVars, doorSm, relayOut, schedFixed>>

\* A minute passes on the RTC; alarm 1 matches on its minute of the day.
RtcTick ==
    /\ rtc.t < RtcStart + MaxRtcTicks
    /\ rtc' = [rtc EXCEPT !.t = @ + 1,
                          !.a1f = @ \/ (wake.armed /\ rtc.set
                                        /\ (rtc.t + 1) % MINUTES_PER_DAY = rtc.alarm)]
    /\ since' = [since EXCEPT !.minute = TRUE]
    /\ UNCHANGED <<now_ms, loop_pc, in_config_mode, led, g_loc, sched, it, storeVars, rs,
                   wakeVars, doorSm, relayOut, schedFixed>>

\* The oscillator stops (the backup cell is gone): the RTC reports time invalid.
RtcLost ==
    /\ rtc.set
    /\ rtc' = [rtc EXCEPT !.set = FALSE]
    /\ UNCHANGED <<now_ms, loop_pc, in_config_mode, led, g_loc, sched, it, since,
                   storeVars, rs, wakeVars, doorSm, relayOut, schedFixed>>

\* "set time" in CONFIG mode writes the RTC and clears the oscillator-stop flag.
RtcRestored ==
    /\ ~rtc.set
    /\ loop_pc = "poll"
    /\ in_config_mode
    /\ rtc' = [rtc EXCEPT !.set = TRUE]
    /\ it' = [it EXCEPT !.polled = TRUE]
    /\ loop_pc' = "rtc"
    /\ UNCHANGED <<now_ms, in_config_mode, led, g_loc, sched, since, storeVars, rs,
                   wakeVars, doorSm, relayOut, schedFixed>>

\* uptime_millis() counts on between two iterations; the counter wraps.
UptimeAdvance ==
    /\ now_ms' = (now_ms + StepMs) % UptimeWrap
    /\ UNCHANGED notClock

(***************************************************************************)
(* The alarm wake (main_firmware.cpp, rtc_common.cpp, rtc_DS3231.cpp,      *)
(* system_sleep_avr.cpp): the loop with both interrupts, the scheduler     *)
(* block, the alarm armed before the sleep and the three statements after  *)
(* the wake.  The DS3231 pulls its INT line low while alarm flag A1F is    *)
(* set; the I2C transfers succeed.                                         *)
(***************************************************************************)
\* What the steps of the alarm wake leave alone.
alarmRest == <<now_ms, g_cfg, doorVars, lockVars, pulseVars, in_config_mode,
               door_debounce_active, door_debounce_start_ms, g_door_event, relayVars,
               storeVars, reducerVars, resolveVars, ledVars, g_loc, sched, it, applyVars,
               switchVars>>

\* "RTC required": if (rtc_time_is_set()) ... else { led blink red; continue; }
AlarmRtc ==
    /\ loop_pc = "sched"
    /\ ~irq_pending
    /\ it' = [it EXCEPT !.checked = TRUE, !.rtc_ok = rtc_time_is_set]
    /\ IF rtc_required(rtc_time_is_set)
       THEN /\ loop_pc' = "eval"
            /\ UNCHANGED led
       ELSE /\ led' = led_state_machine_set(led, "LED_BLINK", "LED_RED", 0)
            /\ loop_pc' = "top"
    /\ UNCHANGED <<now_ms, g_cfg, doorVars, lockVars, pulseVars, in_config_mode,
                   door_debounce_active, door_debounce_start_ms, g_door_event, EIMSK,
                   lines, relayVars, storeVars, reducerVars, wakeVars, resolveVars, rtc,
                   g_loc, sched, since, applyVars, switchVars>>

\* rtc_get_time() and the scheduler block, between two interrupts.
AlarmEval == ~irq_pending /\ SchedEval

\* rtc_alarm_set_minute_of_day(wake_min): rtc_alarm_clear_flag(), then
\* rtc_alarm_set_hm(h, m), which clears A1F and programs alarm 1 for h:m:00.
AlarmArm ==
    /\ loop_pc = "arm"
    /\ ~irq_pending
    /\ LET nxt == next_event_minute(g_cfg_events, sched.day_sol)
           w == wake_min_of(sched.now_minute, nxt)
       IN  /\ wake_in' = [now_minute |-> sched.now_minute, has_next |-> nxt.has,
                          next_min |-> nxt.minute]
           /\ wake' = [armed |-> TRUE, minute |-> w]
           /\ rtc' = [rtc EXCEPT !.alarm = w, !.a1f = FALSE]
    /\ lines' = [lines EXCEPT !.rtc_int = FALSE]
    /\ loop_pc' = "sleep_entry"
    /\ UNCHANGED <<alarmRest, EIMSK, since>>

\* rtc_alarm_set_minute_of_day(wake_min) with an I2C transfer failing:
\* rtc_alarm_set_hm returns false at the failed transfer, having or not
\* having cleared A1F and having or not having taken A1IE away; the alarm
\* is not programmed for wake_min.  main() discards the result.
AlarmArmFails ==
    /\ loop_pc = "arm"
    /\ ~irq_pending
    /\ LET nxt == next_event_minute(g_cfg_events, sched.day_sol)
       IN  wake_in' = [now_minute |-> sched.now_minute, has_next |-> nxt.has,
                       next_min |-> nxt.minute]
    /\ \E cleared \in BOOLEAN, disabled \in BOOLEAN :
          /\ wake' = IF disabled THEN [wake EXCEPT !.armed = FALSE] ELSE wake
          /\ rtc' = IF cleared THEN [rtc EXCEPT !.a1f = FALSE] ELSE rtc
          /\ lines' = IF cleared \/ disabled THEN [lines EXCEPT !.rtc_int = FALSE]
                      ELSE lines
    /\ loop_pc' = "sleep_entry"
    /\ UNCHANGED <<alarmRest, EIMSK, since>>

\* if (gpio_rtc_int_is_asserted()) rtc_alarm_clear_flag();
WakeClearFlag ==
    /\ loop_pc = "woke"
    /\ ~irq_pending
    /\ IF gpio_rtc_int_is_asserted
       THEN /\ rtc' = [rtc EXCEPT !.a1f = FALSE]
            /\ lines' = [lines EXCEPT !.rtc_int = FALSE]
       ELSE UNCHANGED <<rtc, lines>>
    /\ loop_pc' = "woke_int0"
    /\ UNCHANGED <<alarmRest, EIMSK, since, wakeVars>>

rearm_int0_always(mask, asserted) == [mask EXCEPT !.int0 = 1]

\* if (!gpio_rtc_int_is_asserted()) EIMSK |= (1u << INT0);
rearm_int0(mask, asserted) == IF ~asserted THEN [mask EXCEPT !.int0 = 1] ELSE mask

\* if (!gpio_door_sw_is_asserted()) EIMSK |= (1u << INT1);
rearm_int1(mask, asserted) == IF ~asserted THEN [mask EXCEPT !.int1 = 1] ELSE mask

WakeUnmaskInt0 ==
    /\ loop_pc = "woke_int0"
    /\ ~irq_pending
    /\ EIMSK' = rearm_int0(EIMSK, gpio_rtc_int_is_asserted)
    /\ loop_pc' = "woke_int1"
    /\ UNCHANGED <<alarmRest, lines, rtc, since, wakeVars>>

WakeUnmaskInt1 ==
    /\ loop_pc = "woke_int1"
    /\ ~irq_pending
    /\ EIMSK' = rearm_int1(EIMSK, gpio_door_sw_is_asserted)
    /\ loop_pc' = "top"
    /\ UNCHANGED <<alarmRest, lines, rtc, since, wakeVars>>

\* A minute passes on the RTC.  At second 0 of the minute alarm 1 is
\* programmed for, A1F is set and the INT line goes low.  A minute outlasts
\* an iteration of the loop: the next one passes only after the scheduler
\* block has seen this one.
AlarmMinute ==
    /\ rtc.t < RtcStart + MaxRtcTicks
    /\ ~since.minute
    /\ LET match == wake.armed /\ (rtc.t + 1) % MINUTES_PER_DAY = rtc.alarm
       IN  /\ rtc' = [rtc EXCEPT !.t = @ + 1, !.a1f = @ \/ match]
           /\ lines' = [lines EXCEPT !.rtc_int = @ \/ match]
    /\ since' = [since EXCEPT !.minute = TRUE]
    /\ UNCHANGED <<alarmRest, loop_pc, EIMSK, wakeVars>>

\* The two-event day: the door opens at sunrise and closes at sunset.
DayEvents ==
    [i \in Slots |->
        IF i = 1 THEN mk_event(DEVICE_ID_DOOR, 1, "REF_SOLAR_STD_RISE", 0, 1)
        ELSE IF i = 2 THEN mk_event(DEVICE_ID_DOOR, 0, "REF_SOLAR_STD_SET", 0, 2)
        ELSE ZeroEvent]

\* The places of the two-event day: 30 degrees north on the meridian, where
\* the UTC day holds sunrise before sunset, and 90 degrees west, where the
\* sun sets after UTC midnight.
DayLocs ==
    {[latitude_e4 |-> 300000, longitude_e4 |-> 0, tz |-> 0, honor_dst |-> FALSE],
     [latitude_e4 |-> 300000, longitude_e4 |-> 0 - 900000, tz |-> 0, honor_dst |-> FALSE]}

\* The minute before sunrise at the place, on the day after RtcStart's.
DayStart(loc) ==
    LET day == (RtcStart \div MINUTES_PER_DAY) + 1
    IN  day * MINUTES_PER_DAY + day_snapshot(loc, day).sunrise_std - 1

\* A minute passes on the RTC of the two-event day.
DayMinute ==
    /\ rtc.t < DayStart(g_loc) + MaxRtcTicks
    /\ rtc' = [rtc EXCEPT !.t = @ + 1,
                          !.a1f = @ \/ (wake.armed /\ rtc.set
                                        /\ (rtc.t + 1) % MINUTES_PER_DAY = rtc.alarm)]
    /\ since' = [since EXCEPT !.minute = TRUE]
    /\ UNCHANGED <<now_ms, loop_pc, in_config_mode, led, g_loc, sched, it, storeVars, rs,
                   wakeVars, doorSm, relayOut, schedFixed>>

(***************************************************************************)
(* Boot and manual override of the relays under the scheduling loop: the   *)
(* RTC counts seconds, rtc_get_epoch() and the reducer's midnight are on   *)
(* one time base, and the console's "device" command sets a relay by hand. *)
(***************************************************************************)
\* 08:00 UTC on the day after RtcStart's, in minutes.
OverrideBoot == ((RtcStart \div MINUTES_PER_DAY) + 1) * MINUTES_PER_DAY + 8 * 60

\* Relay 1 ON at 07:59 and OFF at 08:02, relay 2 ON at 08:01.
OverrideEvents ==
    [i \in Slots |->
        IF i = 1 THEN mk_event(DEVICE_ID_RELAY1, 1, "REF_MIDNIGHT", 8 * 60 - 1, 1)
        ELSE IF i = 2 THEN mk_event(DEVICE_ID_RELAY2, 1, "REF_MIDNIGHT", 8 * 60 + 1, 2)
        ELSE mk_event(DEVICE_ID_RELAY1, 0, "REF_MIDNIGHT", 8 * 60 + 2, 3)]

\* Half a minute passes on the RTC; on the full minute alarm 1 may match.
OverrideHalfMinute ==
    /\ rtc_epoch < (OverrideBoot + MaxRtcTicks) * 60
    /\ rtc_epoch' = rtc_epoch + 30
    /\ IF (rtc_epoch + 30) % 60 = 0
       THEN /\ rtc' = [rtc EXCEPT !.t = @ + 1,
                                  !.a1f = @ \/ (wake.armed /\ rtc.set
                                                /\ (rtc.t + 1) % MINUTES_PER_DAY = rtc.alarm)]
            /\ since' = [since EXCEPT !.minute = TRUE]
       ELSE UNCHANGED <<rtc, since>>
    /\ UNCHANGED <<now_ms, g_cfg, doorVars, lockVars, pulseVars, loopVars, relay1_state,
                   relay2_state, relay1_last_override_time, relay2_last_override_time,
                   relay_hw, relay_obs, storeVars, reducerVars, wakeVars, resolveVars,
                   ledVars, g_loc, sched, it, applyVars, switchVars>>

\* console_poll() dispatching "device relay1 on|off": device_set_state_by_id().
ConsoleRelay ==
    /\ loop_pc = "poll"
    /\ in_config_mode
    /\ \E state \in {"DEV_STATE_ON", "DEV_STATE_OFF"} :
          /\ relay1_set_state(state)
          /\ relay_obs' = RelayObs(1, "set", state, 0)
    /\ it' = [it EXCEPT !.polled = TRUE]
    /\ loop_pc' = "rtc"
    /\ UNCHANGED <<now_ms, g_cfg, doorVars, lockVars, pulseVars, in_config_mode,
                   door_debounce_active, door_debounce_start_ms, g_door_event, EIMSK,
                   lines, rtc_epoch, relay2_state, relay2_last_override_time, storeVars,
                   reducerVars, wakeVars, resolveVars, ledVars, rtc, g_loc, sched, since,
                   applyVars, switchVars>>

(***************************************************************************)
(* Specifications, one per subsystem, and the properties checked of each.  *)
(***************************************************************************)
\* config_defaults(): the mechanical timing defaults.
CfgDefault ==
    g_cfg = [door_travel_ms |-> 8000, door_settle_ms |-> 2000, lock_pulse_ms |-> 500]

CfgChoice ==
    g_cfg \in [door_travel_ms : TravelChoices,
               door_settle_ms : SettleChoices,
               lock_pulse_ms  : PulseChoices]

InitDoor ==
    /\ now_ms = StartMs
    /\ LedBoot
    /\ MainBoot
    /\ ResolveBoot
    /\ ApplyBoot
    /\ SwitchBoot
    /\ CfgChoice
    /\ DoorBoot
    /\ LockBoot
    /\ PulseBoot
    /\ LoopBoot
    /\ RelayBoot
    /\ StoreBoot
    /\ ReducerBoot
    /\ WakeBoot

NextDoor == Elapse \/ DoorRequest \/ DoorSchedule \/ DoorToggle \/ DoorTick

SpecDoor == InitDoor /\ [][NextDoor]_vars

Moving == g_motion \in {"DOOR_MOVING_OPEN", "DOOR_MOVING_CLOSE"}

(***************************************************************************)
(* C1: in every reachable state of the door state machine the lock bolt is *)
(* released whenever the motion state is MOVING_OPEN or MOVING_CLOSE or    *)
(* the door motor is enabled, the motor was never enabled inside a call    *)
(* before the lock release, and the bolt is engaged only after a tick that *)
(* left POSTCLOSE_LOCK for IDLE_CLOSED: in the idle-closed state or after  *)
(* it, never during a motion.                                              *)
(***************************************************************************)
C1_NoMotionWhileLocked ==
    /\ Moving => hw.lock_pos = "released"
    /\ hw.door_en = 1 => (Moving /\ hw.lock_pos = "released")
    /\ ~hw.drove_locked
    /\ hw.lock_pos = "engaged" => g_motion = "DOOR_IDLE_CLOSED"
    /\ hw.lock_en = 0

\* C1 witness: the door is moving open again after a completed close and lock.
C1_Witness ==
    /\ g_motion = "DOOR_MOVING_OPEN"
    /\ hw.door_en = 1
    /\ hw.lock_pos = "released"
    /\ obs.last > StartMs + g_cfg.door_travel_ms


(***************************************************************************)
(* C7: after request(X) and no further request or toggle, once the ticks   *)
(* have advanced now_ms by at least door_travel_ms, counted from the first *)
(* tick after the request, get_state() is On and the motion is IDLE_OPEN   *)
(* (X = On); for X = Off, once the ticks have then advanced by the settle  *)
(* window and the lock pulse more, get_state() is Off and the motion is    *)
(* IDLE_CLOSED.                                                            *)
(***************************************************************************)
C7_Completion ==
    /\ (obs.target = "DEV_STATE_ON" /\ obs.ticked
          /\ U32Sub(obs.last, obs.first) >= g_cfg.door_travel_ms)
       => (door_get_state = "DEV_STATE_ON" /\ g_motion = "DOOR_IDLE_OPEN")
    /\ (obs.target = "DEV_STATE_OFF" /\ obs.reached
          /\ U32Sub(obs.last, obs.reach) >=
                door_settle_ms + pulse_len(g_cfg.lock_pulse_ms))
       => (door_get_state = "DEV_STATE_OFF" /\ g_motion = "DOOR_IDLE_CLOSED")


(***************************************************************************)
(* The door state machine under request, toggle and tick alone             *)
(***************************************************************************)
NextMotion == Elapse \/ DoorRequest \/ DoorToggle \/ DoorTick

SpecMotion == InitDoor /\ [][NextMotion]_vars

(***************************************************************************)
(* C26: the door state machine engages the lock only in the tick that      *)
(* leaves POSTCLOSE_LOCK for IDLE_CLOSED: the last command was a close, no *)
(* request or toggle came after it, the motor then ran for at least        *)
(* door_travel_ms before a tick stopped it, and at least the settle window *)
(* (door_settle_ms clamped to 250..5000 ms) has passed since that stop.    *)
(***************************************************************************)
SettleWindow ==
    IF g_cfg.door_settle_ms < 250 THEN 250
    ELSE IF g_cfg.door_settle_ms > 5000 THEN 5000
    ELSE g_cfg.door_settle_ms

C26_Engages == hw.lock_pos # "engaged" /\ hw'.lock_pos = "engaged"

C26_LockOnlyAfterSettledClose ==
    [][C26_Engages =>
          /\ g_motion = "DOOR_POSTCLOSE_LOCK"
          /\ g_motion' = "DOOR_IDLE_CLOSED"
          /\ obs.target = "DEV_STATE_OFF"
          /\ obs.ticked
          /\ obs.off
          /\ U32Sub(obs.off_t, obs.first) >= g_cfg.door_travel_ms
          /\ U32Sub(now_ms, obs.off_t) >= SettleWindow]_vars

\* C26 witness: the bolt is engaged after a configured settle time of 50 ms,
\* below the clamp, and the close came from a toggle of the open door.
C26_Witness ==
    /\ hw.lock_pos = "engaged"
    /\ g_motion = "DOOR_IDLE_CLOSED"
    /\ g_cfg.door_settle_ms < 250
    /\ obs.off
    /\ U32Sub(obs.last, obs.off_t) >= 250

\* A close reversed by a toggle ends with the door open and the bolt released.
C26_ReversedCloseOpens ==
    /\ g_motion = "DOOR_IDLE_OPEN"
    /\ obs.target = "DEV_STATE_ON"
    /\ hw.lock_pos = "released"
    /\ obs.last > StartMs + g_cfg.door_travel_ms

(***************************************************************************)
(* C27: on the door H-bridge and on the lock H-bridge no direction line is *)
(* written while the bridge's enable line is high, in any sequence of      *)
(* request, toggle, tick and the lock pulses they run; an enabled door     *)
(* bridge holds exactly one direction, and the lock bridge is off between  *)
(* calls.                                                                  *)
(***************************************************************************)
C27_DirectionOnlyUnpowered ==
    /\ ~hw.dir_hot
    /\ hw.door_en = 1 => (hw.door_ina # hw.door_inb)
    /\ hw.lock_en = 0

\* C27 witness: the motor drives toward closed right after a toggle found it
\* driving toward open, and the lock has been pulsed to release.
C27_Witness ==
    /\ obs.tog.called
    /\ obs.tog.hw.door_en = 1 /\ obs.tog.hw.door_ina = 1
    /\ hw.door_en = 1 /\ hw.door_inb = 1 /\ hw.door_ina = 0
    /\ hw.lock_pos = "released"

(***************************************************************************)
(* C28: toggle() in POSTCLOSE_LOCK changes neither motion, settled state,  *)
(* timer nor hardware.  In every other state it ends, at least the         *)
(* dead-time later, with the timer reset, the settled state unknown and    *)
(* the motor driving toward closed (MOVING_CLOSE) when it found the door   *)
(* idle open, moving open or idle unknown, and toward open (MOVING_OPEN)   *)
(* when it found it idle closed or moving close.                           *)
(***************************************************************************)
C28_TowardClosed == {"DOOR_IDLE_OPEN", "DOOR_MOVING_OPEN", "DOOR_IDLE_UNKNOWN"}

C28_ToggleTargets ==
    obs.tog.called =>
        IF obs.tog.motion = "DOOR_POSTCLOSE_LOCK"
        THEN /\ g_motion = "DOOR_POSTCLOSE_LOCK"
             /\ g_settled_state = obs.tog.settled
             /\ g_motion_t0_ms = obs.tog.t0
             /\ hw = obs.tog.hw
        ELSE /\ g_motion = IF obs.tog.motion \in C28_TowardClosed
                           THEN "DOOR_MOVING_CLOSE" ELSE "DOOR_MOVING_OPEN"
             /\ g_motion_t0_ms = 0
             /\ g_settled_state = "DEV_STATE_UNKNOWN"
             /\ hw.door_en = 1
             /\ hw.door_ina = (IF obs.tog.motion \in C28_TowardClosed THEN 0 ELSE 1)
             /\ hw.door_inb = (IF obs.tog.motion \in C28_TowardClosed THEN 1 ELSE 0)
             /\ hw.lock_pos = "released"
             /\ U32Sub(now_ms, obs.tog.now) >= DOOR_REVERSAL_DELAY_MS

\* C28 witnesses: a toggle ignored during the settle window, and toggles
\* from the unknown state and from a close under way.
C28_Witness ==
    /\ obs.tog.called
    /\ obs.tog.motion = "DOOR_POSTCLOSE_LOCK"
    /\ g_motion = "DOOR_POSTCLOSE_LOCK"

C28_FromUnknown ==
    obs.tog.called /\ obs.tog.motion = "DOOR_IDLE_UNKNOWN" /\ g_motion = "DOOR_MOVING_CLOSE"

C28_FromMovingClose ==
    obs.tog.called /\ obs.tog.motion = "DOOR_MOVING_CLOSE" /\ g_motion = "DOOR_MOVING_OPEN"

C28_FromIdleClosed ==
    obs.tog.called /\ obs.tog.motion = "DOOR_IDLE_CLOSED" /\ g_motion = "DOOR_MOVING_OPEN"

(***************************************************************************)
(* C34: in every state the door state machine reaches under request,       *)
(* toggle and tick, door_sm_get_state() is DEV_STATE_ON exactly in         *)
(* DOOR_IDLE_OPEN, DEV_STATE_OFF exactly in DOOR_IDLE_CLOSED, and          *)
(* DEV_STATE_UNKNOWN in DOOR_IDLE_UNKNOWN, DOOR_MOVING_OPEN,               *)
(* DOOR_MOVING_CLOSE and DOOR_POSTCLOSE_LOCK.                              *)
(***************************************************************************)
C34_SettledMatchesMotion ==
    /\ door_sm_get_state = "DEV_STATE_ON" <=> g_motion = "DOOR_IDLE_OPEN"
    /\ door_sm_get_state = "DEV_STATE_OFF" <=> g_motion = "DOOR_IDLE_CLOSED"
    /\ g_motion \in {"DOOR_IDLE_UNKNOWN", "DOOR_MOVING_OPEN", "DOOR_MOVING_CLOSE",
                     "DOOR_POSTCLOSE_LOCK"} => door_sm_get_state = "DEV_STATE_UNKNOWN"
    /\ door_sm_get_state \in DevStates /\ g_motion \in Motions

\* C34 witness: a closed and locked door was commanded open; it is moving
\* and its settled state is unknown again.
C34_Witness ==
    /\ g_motion = "DOOR_MOVING_OPEN" /\ door_sm_get_state = "DEV_STATE_UNKNOWN"
    /\ obs.target = "DEV_STATE_ON" /\ ~obs.ticked
    /\ obs.tog.called /\ obs.tog.motion = "DOOR_IDLE_CLOSED"
    /\ obs.tog.settled = "DEV_STATE_OFF"

\* The door has settled open, and has settled closed.
C34_SettledOpen == g_motion = "DOOR_IDLE_OPEN" /\ door_sm_get_state = "DEV_STATE_ON"

C34_SettledClosed == g_motion = "DOOR_IDLE_CLOSED" /\ door_sm_get_state = "DEV_STATE_OFF"

C34_Settling == g_motion = "DOOR_POSTCLOSE_LOCK" /\ door_sm_get_state = "DEV_STATE_UNKNOWN"

(***************************************************************************)
(* Specification of the tick-driven lock state machine                     *)
(***************************************************************************)
InitLock ==
    /\ now_ms = StartMs
    /\ LedBoot
    /\ MainBoot
    /\ ResolveBoot
    /\ ApplyBoot
    /\ SwitchBoot
    /\ CfgDefault
    /\ DoorBoot
    /\ LockBoot
    /\ PulseBoot
    /\ LoopBoot
    /\ RelayBoot
    /\ StoreBoot
    /\ ReducerBoot
    /\ WakeBoot

NextLock == Elapse \/ LockEngage \/ LockRelease \/ LockTick

SpecLock == InitLock /\ [][NextLock]_vars

(***************************************************************************)
(* C2: after an engage() or release() issued at t_start, whenever the last *)
(* call is a tick(t_end) with t_end >= t_start + LOCK_MAX_PULSE_MS, the    *)
(* lock state machine is Idle and the lock hardware is stopped, however    *)
(* many ticks came before.                                                 *)
(***************************************************************************)
C2_PulseCapped ==
    (/\ lock_obs.started
     /\ lock_obs.last_call = "tick"
     /\ lock_obs.t_end >= lock_obs.t_start + LOCK_MAX_PULSE_MS)
    => (lock_g_state = "LOCK_STATE_IDLE" /\ lock_hw = lock_hw_stop(lock_hw))


(***************************************************************************)
(* Specification of the blocking lock pulse                                *)
(***************************************************************************)
InitPulse ==
    /\ now_ms = StartMs
    /\ LedBoot
    /\ MainBoot
    /\ ResolveBoot
    /\ ApplyBoot
    /\ SwitchBoot
    /\ g_cfg \in [door_travel_ms : TravelChoices,
                  door_settle_ms : SettleChoices,
                  lock_pulse_ms  : PulseCapChoices]
    /\ DoorBoot
    /\ LockBoot
    /\ PulseBoot
    /\ LoopBoot
    /\ RelayBoot
    /\ StoreBoot
    /\ ReducerBoot
    /\ WakeBoot

NextPulse ==
    \/ PulseCall \/ PulseStopEn \/ PulseStopDir \/ PulseDeadTime \/ PulseSetIna
    \/ PulseSetInb \/ PulseLength \/ PulseEnable \/ PulseWait

SpecPulse == InitPulse /\ [][NextPulse]_vars

(***************************************************************************)
(* C3: door_lock_engage / door_lock_release always return with the lock    *)
(* actuator de-energized (LOCK_EN low, LOCK_INA and LOCK_INB low), and for *)
(* every configured lock_pulse_ms, 0 and values above the cap included,    *)
(* LOCK_EN is high for at most LOCK_MAX_PULSE_MS during a call.            *)
(***************************************************************************)
C3_PulseBounded ==
    /\ pulse.on_ms <= LOCK_MAX_PULSE_MS
    /\ pulse.pc = "idle" => porta = [en |-> 0, ina |-> 0, inb |-> 0]
    /\ porta.en = 1 => pulse.pc \in {"wait", "exit_en"}

\* C3 witness: a pulse configured above the cap has returned after 1500 ms on.
C3_Witness ==
    /\ pulse.pc = "idle"
    /\ pulse.calls = 1
    /\ g_cfg.lock_pulse_ms > LOCK_MAX_PULSE_MS
    /\ pulse.on_ms = LOCK_MAX_PULSE_MS


(***************************************************************************)
(* Specification of the main loop with its interrupts                      *)
(***************************************************************************)
InitLoop ==
    /\ now_ms = StartMs
    /\ LedBoot
    /\ MainBoot
    /\ ResolveBoot
    /\ ApplyBoot
    /\ SwitchBoot
    /\ g_cfg = [door_travel_ms |-> 1000, door_settle_ms |-> 300, lock_pulse_ms |-> 500]
    /\ DoorBoot
    /\ LockBoot
    /\ PulseBoot
    /\ loop_pc = "top"
    /\ in_config_mode = FALSE
    /\ door_debounce_active = FALSE
    /\ door_debounce_start_ms = 0
    /\ g_door_event = 0
    /\ EIMSK = [int0 |-> 1, int1 |-> 1]
    /\ lines \in [door_sw : BOOLEAN, rtc_int : {FALSE}, rtc_set : BOOLEAN]
    /\ RelayBoot
    /\ StoreBoot
    /\ ReducerBoot
    /\ WakeBoot

NextLoop ==
    \/ LoopTop \/ LoopLatch \/ LoopDebounce \/ LoopRearm \/ LoopSchedule \/ LoopGate
    \/ LoopArm \/ system_sleep_until \/ LoopWake
    \/ ISR_INT0 \/ ISR_INT1 \/ DoorSwitchChanges \/ RtcAlarmFires

SpecLoop == InitLoop /\ [][NextLoop]_vars

(***************************************************************************)
(* C4: whenever the processor is in deep sleep, in_config_mode is false,   *)
(* devices_busy() is false, door debounce is inactive and no door-switch   *)
(* event is pending, whatever the interleaving of ISR(INT1_vect) with the  *)
(* gate check and the sleep entry.                                         *)
(***************************************************************************)
C4_SleepOnlyWhenIdle ==
    loop_pc = "asleep" =>
        (/\ ~in_config_mode
         /\ ~devices_busy
         /\ ~door_debounce_active
         /\ g_door_event = 0)


(***************************************************************************)
(* C35: the door motor is enabled only in DOOR_MOVING_OPEN and             *)
(* DOOR_MOVING_CLOSE; devices_busy() is true exactly in the two moving     *)
(* states and in DOOR_POSTCLOSE_LOCK; and whenever the processor is in     *)
(* deep sleep the door motor and the lock actuator are off and the door is *)
(* in one of its three idle states.                                        *)
(***************************************************************************)
C35_NoSleepWhileEnergized ==
    /\ hw.door_en = 1 => g_motion \in {"DOOR_MOVING_OPEN", "DOOR_MOVING_CLOSE"}
    /\ devices_busy <=> g_motion \in {"DOOR_MOVING_OPEN", "DOOR_MOVING_CLOSE",
                                       "DOOR_POSTCLOSE_LOCK"}
    /\ hw.lock_en = 0
    /\ loop_pc = "asleep" =>
          /\ hw.door_en = 0
          /\ g_motion \in {"DOOR_IDLE_UNKNOWN", "DOOR_IDLE_OPEN", "DOOR_IDLE_CLOSED"}

\* C35 witness: the processor sleeps after a close that ran its travel, its
\* settle window and the lock pulse.
C35_Witness ==
    /\ loop_pc = "asleep"
    /\ g_motion = "DOOR_IDLE_CLOSED" /\ hw.lock_pos = "engaged"
    /\ hw.door_en = 0 /\ hw.lock_en = 0

\* The gate is reached with the motor running, and in the settle window.
C35_GateWhileMoving == loop_pc = "gate" /\ hw.door_en = 1 /\ Moving

C35_GateWhileSettling == loop_pc = "gate" /\ g_motion = "DOOR_POSTCLOSE_LOCK"

(***************************************************************************)
(* Specification of the relay devices                                      *)
(***************************************************************************)
InitRelay ==
    /\ now_ms = StartMs
    /\ LedBoot
    /\ MainBoot
    /\ ResolveBoot
    /\ ApplyBoot
    /\ SwitchBoot
    /\ CfgDefault
    /\ DoorBoot
    /\ LockBoot
    /\ PulseBoot
    /\ LoopBoot
    /\ \E e \in {0, 1} : RelayInit(e)
    /\ StoreBoot
    /\ ReducerBoot
    /\ WakeBoot

NextRelay == EpochAdvance \/ Relay1Set \/ Relay1Schedule \/ Relay2Set \/ Relay2Schedule

SpecRelay == InitRelay /\ [][NextRelay]_vars

(***************************************************************************)
(* C5: after a manual set_state(s) recorded at epoch t0, a scheduled       *)
(* state (s', t1) with t1 <= t0 is ignored and the relay stays as it is;   *)
(* with t1 > t0 the relay adopts s'.  A manual set adopts its state and    *)
(* records the epoch.  A call on one relay changes neither the state nor   *)
(* the override time of the other.                                         *)
(***************************************************************************)
C5_Step ==
    LET o == relay_obs' IN
    /\ (o.call = "schedule" /\ o.r = 1) =>
          /\ relay1_state' = (IF o.when <= relay_obs.t0_1 THEN relay1_state ELSE o.state)
          /\ relay1_last_override_time' = relay_obs.t0_1
          /\ relay2_state' = relay2_state
          /\ relay2_last_override_time' = relay_obs.t0_2
    /\ (o.call = "schedule" /\ o.r = 2) =>
          /\ relay2_state' = (IF o.when <= relay_obs.t0_2 THEN relay2_state ELSE o.state)
          /\ relay2_last_override_time' = relay_obs.t0_2
          /\ relay1_state' = relay1_state
          /\ relay1_last_override_time' = relay_obs.t0_1
    /\ (o.call = "set" /\ o.r = 1) =>
          /\ relay1_state' = o.state
          /\ relay1_last_override_time' = rtc_epoch
          /\ relay2_state' = relay2_state
          /\ relay2_last_override_time' = relay_obs.t0_2
    /\ (o.call = "set" /\ o.r = 2) =>
          /\ relay2_state' = o.state
          /\ relay2_last_override_time' = rtc_epoch
          /\ relay1_state' = relay1_state
          /\ relay1_last_override_time' = relay_obs.t0_1

C5_RelayArbitration == [][rtc_epoch' = rtc_epoch => C5_Step]_vars

\* C5 witness: relay1, ON since a manual set at a set clock, has just ignored
\* a scheduled OFF stamped with that very epoch; relay2 went its own way.
C5_Witness ==
    /\ relay_obs.call = "schedule" /\ relay_obs.r = 1
    /\ relay_obs.t0_1 > 0 /\ relay_obs.when = relay_obs.t0_1
    /\ relay_obs.state = "DEV_STATE_OFF" /\ relay1_state = "DEV_STATE_ON"
    /\ relay2_state = "DEV_STATE_UNKNOWN" /\ relay_obs.t0_2 < relay_obs.t0_1

(***************************************************************************)
(* C32: a relay's last override time is written by the manual set_state    *)
(* alone, which stamps it with the current epoch.  A scheduled state,      *)
(* ignored or applied through the internal hardware update, leaves both    *)
(* override times as they were.  A call on relay1 changes neither the      *)
(* state, the coil nor the override time of relay2, and the other way      *)
(* round.                                                                  *)
(***************************************************************************)
C32_Frame ==
    LET o == relay_obs' IN
    /\ o.call = "schedule" =>
          /\ relay1_last_override_time' = relay1_last_override_time
          /\ relay2_last_override_time' = relay2_last_override_time
    /\ (o.call = "set" /\ o.r = 1) => relay1_last_override_time' = rtc_get_epoch
    /\ (o.call = "set" /\ o.r = 2) => relay2_last_override_time' = rtc_get_epoch
    /\ o.r = 1 =>
          /\ relay2_state' = relay2_state
          /\ relay2_last_override_time' = relay2_last_override_time
          /\ relay_hw'.k2 = relay_hw.k2
    /\ o.r = 2 =>
          /\ relay1_state' = relay1_state
          /\ relay1_last_override_time' = relay1_last_override_time
          /\ relay_hw'.k1 = relay_hw.k1

InitStore ==
    /\ now_ms = StartMs
    /\ LedBoot
    /\ MainBoot
    /\ ResolveBoot
    /\ ApplyBoot
    /\ SwitchBoot
    /\ CfgDefault
    /\ DoorBoot
    /\ LockBoot
    /\ PulseBoot
    /\ LoopBoot
    /\ RelayBoot
    /\ StoreBoot
    /\ ReducerBoot
    /\ WakeBoot

NextStore == EventsAdd \/ EventsUpdate \/ EventsDelete \/ EventsClear \/ EventsGet

SpecStore == InitStore /\ [][NextStore]_vars

Mutators == {"add", "update", "delete", "clear"}

(***************************************************************************)
(* C8 as stated: every call of add, update_by_refnum, delete_by_refnum or  *)
(* clear leaves the ETag strictly greater than it found it.                *)
(***************************************************************************)
C8_EveryCallBumps ==
    store_obs.op \in Mutators => g_schedule_etag > store_obs.etag

(***************************************************************************)
(* C8, amended: every mutator call that succeeds (clear always does) bumps *)
(* the ETag exactly once; a call that fails (null event, table full,       *)
(* refnum 0 or not found) leaves ETag and table as they were; so does      *)
(* config_events_get.                                                      *)
(***************************************************************************)
C8_SuccessBumpsOnce ==
    /\ (store_obs.op \in Mutators /\ store_obs.ok) =>
          g_schedule_etag = store_obs.etag + 1
    /\ store_obs.op = "clear" => store_obs.ok
    /\ (store_obs.op \in Mutators /\ ~store_obs.ok) =>
          (g_schedule_etag = store_obs.etag /\ g_cfg_events = store_obs.events)
    /\ store_obs.op = "get" =>
          (g_schedule_etag = store_obs.etag /\ g_cfg_events = store_obs.events)

\* C8 witness: an update of a used slot has just bumped an ETag that earlier
\* calls had already moved.
C8_Witness ==
    /\ store_obs.op = "update" /\ store_obs.ok
    /\ store_obs.etag >= 2
    /\ g_schedule_etag = store_obs.etag + 1
    /\ g_cfg_events # store_obs.events

(***************************************************************************)
(* C9: starting from a cleared table, after any sequence of add,           *)
(* update_by_refnum, delete_by_refnum and clear, every slot whose refnum   *)
(* is 0 has all its fields zero.                                           *)
(***************************************************************************)
C9_EmptySlotsZeroed ==
    \A i \in Slots : g_cfg_events[i].refnum = 0 => g_cfg_events[i] = ZeroEvent

\* C9 witness: a used slot has just been deleted, below a slot still in use.
C9_Witness ==
    /\ store_obs.op = "delete" /\ store_obs.ok
    /\ \E i \in Slots :
          /\ store_obs.events[i].refnum # 0
          /\ store_obs.events[i].device_id # 0
          /\ g_cfg_events[i] = ZeroEvent
          /\ \E j \in Slots : j > i /\ g_cfg_events[j].refnum = j

(***************************************************************************)
(* C21: add(event) on a table with at least one empty slot stores the      *)
(* event in the lowest-index empty slot with refnum = slot index + 1 (the  *)
(* slots are numbered from 1 here, so refnum = slot number), whatever      *)
(* refnum the argument carries, leaves every other slot unchanged and      *)
(* returns success.                                                        *)
(***************************************************************************)
C21_AddFillsLowestEmpty ==
    (/\ store_obs.op = "add"
     /\ store_obs.ev # NullEvent
     /\ \E i \in Slots : store_obs.events[i].refnum = 0) =>
        \E i \in Slots :
            /\ store_obs.events[i].refnum = 0
            /\ \A j \in Slots : j < i => store_obs.events[j].refnum # 0
            /\ g_cfg_events[i] = [store_obs.ev EXCEPT !.refnum = i]
            /\ \A j \in Slots \ {i} : g_cfg_events[j] = store_obs.events[j]
            /\ store_obs.ok

\* C21 witness: an event carrying refnum 9 has been added into the hole a
\* delete left below a used slot, and got the hole's refnum.
C21_Witness ==
    /\ store_obs.op = "add" /\ store_obs.ok
    /\ store_obs.ev # NullEvent /\ store_obs.ev.refnum = 9
    /\ \E i \in Slots :
          /\ store_obs.events[i].refnum = 0
          /\ g_cfg_events[i].refnum = i
          /\ g_cfg_events[i].device_id = store_obs.ev.device_id
          /\ \E j \in Slots : j > i /\ store_obs.events[j].refnum # 0

(***************************************************************************)
(* C22: a failed mutation leaves the state unchanged.  add on a full       *)
(* table, and update_by_refnum / delete_by_refnum with refnum 0 or with a  *)
(* refnum no slot carries, return false and change neither the event       *)
(* table nor the schedule ETag.                                            *)
(***************************************************************************)
C22_FailureCase ==
    \/ /\ store_obs.op = "add"
       /\ \A i \in Slots : store_obs.events[i].refnum # 0
    \/ /\ store_obs.op \in {"update", "delete"}
       /\ \/ store_obs.ref = 0
          \/ \A i \in Slots : store_obs.events[i].refnum # store_obs.ref

C22_FailedMutationNoChange ==
    C22_FailureCase =>
        /\ ~store_obs.ok
        /\ g_cfg_events = store_obs.events
        /\ g_schedule_etag = store_obs.etag

\* C22 witness: an update naming a refnum that a delete had freed, on a
\* table that still holds another event and whose ETag has moved.
C22_Witness ==
    /\ store_obs.op = "update"
    /\ store_obs.ev # NullEvent
    /\ store_obs.ref \in Slots
    /\ \A i \in Slots : store_obs.events[i].refnum # store_obs.ref
    /\ \E i \in Slots : store_obs.events[i].refnum # 0
    /\ store_obs.etag >= 3
    /\ ~store_obs.ok

\* The other failure cases of C22 occur as well.
C22_FullTableAdd ==
    /\ store_obs.op = "add" /\ store_obs.ev # NullEvent /\ ~store_obs.ok
    /\ \A i \in Slots : store_obs.events[i].refnum # 0

C22_DeleteRefZero ==
    /\ store_obs.op = "delete" /\ store_obs.ref = 0 /\ ~store_obs.ok
    /\ \E i \in Slots : store_obs.events[i].refnum # 0

(***************************************************************************)
(* C39: after any sequence of add, update_by_refnum, delete_by_refnum and  *)
(* clear from a cleared table, every used slot holds its own slot number   *)
(* as refnum (slots are numbered from 1 here: slot i is C index i - 1), so *)
(* the refnums of used slots are pairwise distinct and lie in              *)
(* 1..MAX_EVENTS; an update_by_refnum leaves every slot's refnum as it     *)
(* found it.                                                               *)
(***************************************************************************)
C39_RefnumIsSlot ==
    /\ \A i \in Slots : g_cfg_events[i].refnum # 0 => g_cfg_events[i].refnum = i
    /\ \A i, j \in Slots :
          (g_cfg_events[i].refnum # 0 /\ g_cfg_events[i].refnum = g_cfg_events[j].refnum)
              => i = j
    /\ \A i \in Slots : g_cfg_events[i].refnum \in 0..MAX_EVENTS
    /\ store_obs.op = "update" =>
          \A i \in Slots : g_cfg_events[i].refnum = store_obs.events[i].refnum

\* C39 witness: the event in slot 2 has just been replaced, through its
\* refnum, by an event whose refnum field says 9, while slot 1 is empty.
C39_Witness ==
    /\ store_obs.op = "update" /\ store_obs.ok
    /\ store_obs.ref = 2 /\ store_obs.ev # NullEvent /\ store_obs.ev.refnum = 9
    /\ g_cfg_events[2] = [store_obs.ev EXCEPT !.refnum = 2]
    /\ g_cfg_events[2] # store_obs.events[2]
    /\ g_cfg_events[1].refnum = 0

(***************************************************************************)
(* Specification of the state reducer over sampled tables                  *)
(***************************************************************************)
InitReducer ==
    /\ now_ms = StartMs
    /\ LedBoot
    /\ MainBoot
    /\ ResolveBoot
    /\ ApplyBoot
    /\ SwitchBoot
    /\ CfgDefault
    /\ DoorBoot
    /\ LockBoot
    /\ PulseBoot
    /\ LoopBoot
    /\ RelayBoot
    /\ StoreBoot
    /\ WakeBoot
    /\ red_in \in [events : [Slots -> ReducerSamples], sol : SolSamples,
                   now_minute : NowSamples, today_epoch_midnight : {86400}]
    /\ rs = [done |-> FALSE, has_action |-> ReducerClear.has_action,
             action |-> ReducerClear.action, when |-> ReducerClear.when]

NextReducer == ReducerRun

SpecReducer == InitReducer /\ [][NextReducer]_vars

\* The used slots of device d whose time resolves to a minute not after now.
Eligible(d) ==
    {i \in Slots :
        /\ red_in.events[i].refnum # 0
        /\ red_in.events[i].device_id = d
        /\ resolve_when(red_in.events[i].when, red_in.sol).ok
        /\ resolve_when(red_in.events[i].when, red_in.sol).minute <= red_in.now_minute}

Minute(i) == resolve_when(red_in.events[i].when, red_in.sol).minute

(***************************************************************************)
(* C6: after the reducer has run, every device with has_action has a used  *)
(* event whose resolved minute is <= now_minute, whose minute is the one   *)
(* in the device's `when` and whose action is the device's action, and no  *)
(* event of that device resolves to a later minute that is still           *)
(* <= now_minute; a device none of whose events is due has no action.      *)
(***************************************************************************)
C6_LatestNotAfterNow ==
    rs.done =>
        \A d \in DeviceIds :
            /\ rs.has_action[d] =>
                  \E i \in Eligible(d) :
                      /\ rs.when[d] = red_in.today_epoch_midnight + Minute(i) * 60
                      /\ rs.action[d] = red_in.events[i].action
                      /\ \A j \in Eligible(d) : Minute(j) <= Minute(i)
            /\ Eligible(d) = {} => ~rs.has_action[d]

\* C6 witness: device 1 has an event due at 10, one due at 20 and one still
\* ahead at 1430; at minute 20 the one at 20 governs.
C6_Witness ==
    /\ rs.done /\ red_in.now_minute = 20
    /\ rs.has_action[1] /\ rs.action[1] = 0
    /\ rs.when[1] = red_in.today_epoch_midnight + 20 * 60
    /\ Cardinality(Eligible(1)) = 2
    /\ \E i \in Slots : red_in.events[i].device_id = 1 /\ Minute(i) = 1430

\* The slot that governs device d: among the due slots of d with the latest
\* minute, the one with the highest index.
LatestDue(d) == {i \in Eligible(d) : \A j \in Eligible(d) : Minute(j) <= Minute(i)}

Governing(d) == CHOOSE i \in LatestDue(d) : \A j \in LatestDue(d) : j <= i

(***************************************************************************)
(* C29: the reducer looks at every slot of the table and passes over only  *)
(* those with refnum 0 or a device id >= STATE_REDUCER_MAX_DEVICES; of the *)
(* events of a device that share the latest minute <= now_minute the one   *)
(* in the highest slot governs, has_action is set, action is that event's  *)
(* action and when is today_epoch_midnight + minute * 60; a device with no *)
(* event due has has_action false.                                         *)
(***************************************************************************)
C29_HighestSlotWinsTie ==
    rs.done =>
        \A d \in DeviceIds :
            IF Eligible(d) = {}
            THEN ~rs.has_action[d]
            ELSE /\ rs.has_action[d]
                 /\ rs.action[d] = red_in.events[Governing(d)].action
                 /\ rs.when[d] = red_in.today_epoch_midnight + Minute(Governing(d)) * 60

\* C29 witness: slot 1 is a hole, slots 2 and 3 hold events of device 1 that
\* both resolve to the latest due minute and ask for different actions; the
\* reducer reports the action of slot 3.
C29_Witness ==
    /\ rs.done
    /\ red_in.events[1].refnum = 0
    /\ LatestDue(1) = {2, 3}
    /\ red_in.events[2].action # red_in.events[3].action
    /\ rs.has_action[1]
    /\ rs.action[1] = red_in.events[3].action
    /\ rs.when[1] = red_in.today_epoch_midnight + 10 * 60

\* A used slot whose time has no minute: the reference is None or no
\* enumerator, or it is solar and there is no snapshot.
Unresolvable(ev, sol) ==
    /\ ev.refnum # 0
    /\ \/ ev.when.ref \in {"REF_NONE", "REF_INVALID"}
       \/ /\ ev.when.ref \in {"REF_SOLAR_STD_RISE", "REF_SOLAR_STD_SET",
                              "REF_SOLAR_CIV_RISE", "REF_SOLAR_CIV_SET"}
          /\ ~sol.have

\* The table with the unresolvable slots emptied.
WithoutUnresolvable ==
    [i \in Slots |-> IF Unresolvable(red_in.events[i], red_in.sol)
                     THEN ZeroEvent ELSE red_in.events[i]]

(***************************************************************************)
(* C30: resolve_when returns false, with no minute, for the reference      *)
(* None, for a reference that is no enumerator and for every solar         *)
(* reference when there is no snapshot; the reducer's output is the one it *)
(* gives for the table without those events, so the midnight events of the *)
(* same table govern their devices as if the others were not there.        *)
(***************************************************************************)
C30_UnresolvableSkipped ==
    rs.done =>
        /\ \A i \in Slots :
              Unresolvable(red_in.events[i], red_in.sol) =>
                  resolve_when(red_in.events[i].when, red_in.sol) = [ok |-> FALSE, minute |-> 0]
        /\ rs = state_reducer_run(WithoutUnresolvable, MAX_EVENTS, red_in.sol,
                                  red_in.now_minute, red_in.today_epoch_midnight)
        /\ \A d \in DeviceIds :
              (\E i \in Slots : /\ red_in.events[i].refnum # 0
                                /\ red_in.events[i].device_id = d
                                /\ red_in.events[i].when.ref = "REF_MIDNIGHT"
                                /\ 0 <= red_in.events[i].when.offset_minutes
                                /\ red_in.events[i].when.offset_minutes <= red_in.now_minute)
                  => rs.has_action[d]

\* C30 witness: no snapshot; device 1 has a sunrise event in the last slot
\* (which the tie rule would prefer) and a midnight event due at minute 10,
\* the third slot has no reference; the midnight event governs.
C30_Witness ==
    /\ rs.done /\ ~red_in.sol.have
    /\ red_in.events[3] = mk_event(1, 0, "REF_SOLAR_STD_RISE", -5, 5)
    /\ red_in.events[2] = mk_event(1, 1, "REF_NONE", 10, 6)
    /\ red_in.events[1] = mk_event(1, 1, "REF_MIDNIGHT", 10, 1)
    /\ red_in.now_minute = 10
    /\ rs.has_action[1] /\ rs.action[1] = 1
    /\ rs.when[1] = red_in.today_epoch_midnight + 10 * 60

\* An event whose reference is no enumerator, alone with a midnight event of
\* the same device that is due: the midnight event governs.
C30_UnknownRef ==
    /\ rs.done
    /\ \E i \in Slots : red_in.events[i].when.ref = "REF_INVALID"
    /\ \E i \in Slots : red_in.events[i] = mk_event(4, 1, "REF_MIDNIGHT", 20, 4)
    /\ red_in.now_minute = 20
    /\ rs.has_action[4] /\ rs.action[4] = 1

(***************************************************************************)
(* Specification of the wake-minute computation                            *)
(***************************************************************************)
InitWake ==
    /\ now_ms = StartMs
    /\ LedBoot
    /\ MainBoot
    /\ ResolveBoot
    /\ ApplyBoot
    /\ SwitchBoot
    /\ CfgDefault
    /\ DoorBoot
    /\ LockBoot
    /\ PulseBoot
    /\ LoopBoot
    /\ RelayBoot
    /\ StoreBoot
    /\ ReducerBoot
    /\ \E now \in 0..(MINUTES_PER_DAY - 1) :
          \/ wake_in = [now_minute |-> now, has_next |-> FALSE, next_min |-> 0]
          \/ \E m \in NextSamples(now) :
                wake_in = [now_minute |-> now, has_next |-> TRUE, next_min |-> m]
    /\ wake = [armed |-> FALSE, minute |-> 0]

NextWake == WakeArm

SpecWake == InitWake /\ [][NextWake]_vars

(***************************************************************************)
(* C10: for every now_minute in 0..1439 and every answer of                *)
(* next_event_minute(), the wake minute armed lies in 0..1439 and differs  *)
(* from now_minute; it is the next-event minute when that is > now_minute  *)
(* and (now_minute + 1) mod 1440 otherwise (answer <= now_minute, or no    *)
(* events at all).                                                         *)
(***************************************************************************)
C10_StrictFutureWake ==
    wake.armed =>
        /\ wake.minute \in 0..1439
        /\ wake.minute # wake_in.now_minute
        /\ wake.minute = IF wake_in.has_next /\ wake_in.next_min > wake_in.now_minute
                         THEN wake_in.next_min
                         ELSE IF wake_in.now_minute = 1439 THEN 0
                         ELSE wake_in.now_minute + 1

\* C10 witness: at 23:59 with the next event at 23:59 the alarm wraps to 00:00.
C10_Witness ==
    /\ wake.armed
    /\ wake_in.now_minute = 1439 /\ wake_in.has_next /\ wake_in.next_min = 1439
    /\ wake.minute = 0


(***************************************************************************)
(* Specification of the time resolver over every reference kind and every  *)
(* signed 16-bit offset                                                    *)
(***************************************************************************)
InitResolve ==
    /\ now_ms = StartMs
    /\ LedBoot
    /\ MainBoot
    /\ CfgDefault
    /\ DoorBoot
    /\ LockBoot
    /\ PulseBoot
    /\ LoopBoot
    /\ RelayBoot
    /\ StoreBoot
    /\ ReducerBoot
    /\ WakeBoot
    /\ ApplyBoot
    /\ SwitchBoot
    /\ res \in [when : [ref : TimeRefs, offset_minutes : INT16_MIN..INT16_MAX],
                sol : ResolveSols, done : {FALSE}, ok : {FALSE}, minute : {0}]

NextResolve == ResolveCall

SpecResolve == InitResolve /\ [][NextResolve]_vars

(***************************************************************************)
(* C13: for every When (every reference kind, every signed 16-bit offset)  *)
(* and every solar snapshot with minutes in 0..1439, whenever resolve      *)
(* succeeds the resolved minute lies in 0..1439.                           *)
(***************************************************************************)
C13_ResolvedMinuteInDay ==
    (res.done /\ res.ok) => (res.minute >= 0 /\ res.minute <= MINUTES_PER_DAY - 1)

\* A solar reference at 23:59 with the largest offset resolves inside the day.
C13_Witness ==
    /\ res.done /\ res.ok
    /\ res.when = [ref |-> "REF_SOLAR_STD_RISE", offset_minutes |-> INT16_MAX]
    /\ res.sol.have
    /\ res.minute = (1439 + 32767) % 1440

(***************************************************************************)
(* C14: resolver round trip.  For every signed 16-bit offset m,            *)
(* resolve({Midnight, m}) succeeds, with or without a solar snapshot, and  *)
(* yields m mod 1440 normalised to 0..1439.                                *)
(***************************************************************************)
C14_MidnightRoundTrip ==
    (res.done /\ res.when.ref = "REF_MIDNIGHT") =>
        /\ res.ok
        /\ res.minute \in 0..(MINUTES_PER_DAY - 1)
        /\ \E k \in (0 - 23)..22 : res.when.offset_minutes = res.minute + k * MINUTES_PER_DAY

\* A negative offset that is no multiple of a day, resolved without a snapshot.
C14_Witness ==
    /\ res.done /\ res.ok
    /\ res.when = [ref |-> "REF_MIDNIGHT", offset_minutes |-> INT16_MIN]
    /\ ~res.sol.have
    /\ res.minute = 352


(***************************************************************************)
(* Specification of the scheduling loop: RTC, console commands, reducer,   *)
(* applier on the relays, sleep and alarm                                  *)
(***************************************************************************)
InitSched ==
    /\ now_ms = StartMs
    /\ CfgDefault
    /\ DoorBoot
    /\ LockBoot
    /\ PulseBoot
    /\ LoopBoot
    /\ RelayBoot
    /\ StoreBoot
    /\ ReducerBoot
    /\ WakeBoot
    /\ ResolveBoot
    /\ ApplyBoot
    /\ SwitchBoot
    /\ LedBoot
    /\ rtc \in [set : BOOLEAN, t : {RtcStart}, alarm : {0}, a1f : {FALSE}]
    /\ g_loc = [latitude_e4 |-> 300000, longitude_e4 |-> 0, tz |-> 0,
                honor_dst |-> FALSE]
    /\ sched = SchedLocals
    /\ it = ItBoot
    /\ since = [minute |-> TRUE, etag |-> FALSE, mut |-> FALSE]

NextSched ==
    \/ SchedTop \/ SchedPoll \/ ConsoleEvents \/ ConsoleSet \/ SchedRtc \/ SchedEval
    \/ SchedGate \/ SchedWake \/ RtcTick \/ RtcLost \/ RtcRestored

SpecSched == InitSched /\ [][NextSched]_vars


(***************************************************************************)
(* C11 as stated: with a valid RTC, an iteration runs reducer and applier  *)
(* only if the minute or the schedule ETag has changed since the last      *)
(* evaluation, and after an event-store mutation made mid-minute the next  *)
(* evaluating iteration runs them at once.                                 *)
(***************************************************************************)
C11_RunsOnEveryMutation ==
    /\ it.ran => (it.seen_minute \/ it.seen_etag)
    /\ (it.evaluated /\ it.seen_mut) => it.ran

(***************************************************************************)
(* C11 amended: reducer and applier run only if the minute or the ETag has *)
(* changed since the last evaluation; after an event-store mutation that   *)
(* leaves at least one event in the table the next evaluating iteration    *)
(* runs them at once; while the table is empty neither is run and no       *)
(* device is commanded.                                                    *)
(***************************************************************************)
C11_RunsOnChange ==
    /\ it.ran => (it.seen_minute \/ it.seen_etag)
    /\ (it.evaluated /\ it.seen_mut /\ it.used > 0) => it.ran
    /\ (it.evaluated /\ it.used = 0) => (~it.ran /\ it.cmds = {})

\* An event added mid-minute is applied by the iteration that polled it.
C11_Witness ==
    /\ it.ran
    /\ it.seen_mut
    /\ ~it.seen_minute
    /\ it.cmds # {}

(***************************************************************************)
(* C15: an iteration that finds the RTC time invalid has called            *)
(* device_tick, runs neither reducer nor applier, does not sleep, leaves   *)
(* the LED set to blink red and starts over; reducer, applier and sleep    *)
(* are reached only past a valid reading; and an iteration that finds the  *)
(* time valid goes on to the evaluation whatever the iterations before     *)
(* found.                                                                  *)
(***************************************************************************)
C15_RtcInvalidSkipsScheduling ==
    /\ (it.checked /\ ~it.rtc_ok) =>
          /\ loop_pc = "top"
          /\ it.ticked
          /\ ~it.evaluated
          /\ ~it.ran
          /\ led.g_mode = "LED_BLINK"
          /\ led.g_color = "LED_RED"
    /\ loop_pc \in {"eval", "gate", "asleep"} => (it.ticked /\ it.checked /\ it.rtc_ok)
    /\ (it.evaluated \/ it.ran) => (it.checked /\ it.rtc_ok)
    /\ (it.checked /\ it.rtc_ok) => (loop_pc = "eval" \/ it.evaluated)

\* The iteration after one that found the time invalid runs the reducer.
C15_Witness ==
    /\ it.prev_invalid
    /\ it.checked
    /\ it.rtc_ok
    /\ it.ran

(***************************************************************************)
(* C17: time-zone noninterference.  At every evaluation, for every tz of   *)
(* -12..14 and either honor_dst, the configuration with those two values   *)
(* put in leads to the same snapshot, the same reducer output, the same    *)
(* device commands and the same wake minute as the configuration in use.   *)
(***************************************************************************)
C17_TzNoninterference ==
    loop_pc = "eval" =>
        LET in_use == EvalOut(g_loc)
        IN  \A tz \in (0 - 12)..14, dst \in BOOLEAN :
                EvalOut([g_loc EXCEPT !.tz = tz, !.honor_dst = dst]) = in_use

\* A snapshot computed on the first evaluation of a day with tz = -6 in the
\* configuration, and a solar event resolved against it.
C17_Witness ==
    /\ loop_pc = "eval"
    /\ g_loc.tz # 0
    /\ EvalOut(g_loc).date_changed
    /\ EvalOut(g_loc).snap.have
    /\ EvalOut(g_loc).run
    /\ EvalOut(g_loc).out.has_action[DEVICE_ID_RELAY2]

(***************************************************************************)
(* C18: whenever the reducer runs, the solar snapshot it is given is the   *)
(* one of the current UTC day and of the current location: computed on    *)
(* the first evaluation of the day and again after latitude or longitude   *)
(* is changed through the console.                                         *)
(***************************************************************************)
C18_SnapshotFollowsLocation == it.ran => it.fresh


(***************************************************************************)
(* The main loop with the uptime counter running: every step of the loop   *)
(* is eventually taken, and the counter keeps counting.                    *)
(***************************************************************************)
InitBlink ==
    /\ now_ms = 0
    /\ CfgDefault
    /\ DoorBoot
    /\ LockBoot
    /\ PulseBoot
    /\ LoopBoot
    /\ RelayBoot
    /\ StoreBoot
    /\ ReducerBoot
    /\ WakeBoot
    /\ ResolveBoot
    /\ ApplyBoot
    /\ SwitchBoot
    /\ LedBoot
    /\ rtc \in [set : BOOLEAN, t : {RtcStart}, alarm : {0}, a1f : {FALSE}]
    /\ g_loc = [latitude_e4 |-> 0, longitude_e4 |-> 0, tz |-> 0, honor_dst |-> FALSE]
    /\ sched = SchedLocals
    /\ it = ItBoot
    /\ since = [minute |-> TRUE, etag |-> FALSE, mut |-> FALSE]

LoopStep == SchedTop \/ SchedPoll \/ SchedRtc \/ SchedEval \/ SchedGate \/ SchedWake

NextBlink == LoopStep \/ RtcTick \/ RtcLost \/ RtcRestored \/ UptimeAdvance

SpecBlink ==
    InitBlink /\ [][NextBlink]_vars /\ WF_vars(LoopStep) /\ WF_vars(UptimeAdvance)

BlinkRedOn == led.g_mode = "LED_BLINK" /\ led.g_color = "LED_RED" /\ led.g_led_on

(***************************************************************************)
(* C16 as stated: while the RTC time is invalid at every iteration, the    *)
(* LED state machine is in blink/red and its on phase is reached again and *)
(* again, and the console is polled again and again while the CONFIG       *)
(* switch is on.                                                           *)
(***************************************************************************)
C16_BlinksRedForever ==
    ([]~rtc.set) => /\ []<>BlinkRedOn
                    /\ ([]in_config_mode) => []<>it.polled

\* What the code does instead: with the time invalid throughout, blink/red
\* is never in its on phase.
C16_RedNeverOn == ([]~rtc.set) => []~BlinkRedOn

\* The console half of C16.
C16_ConsoleServiced == ([]~rtc.set /\ []in_config_mode) => []<>it.polled

\* The blink tick does reach its on phase when the mode is not set again:
\* the boot blink in green, and blink/red once the time has been set.
C16_GreenOn == led.g_mode = "LED_BLINK" /\ led.g_color = "LED_GREEN" /\ led.g_led_on
C16_RedOnAfterRestore == BlinkRedOn /\ rtc.set


(***************************************************************************)
(* The applier over door and relays: schedule_apply on any reducer output, *)
(* device ticks, manual relay commands, uptime and epoch passing.          *)
(***************************************************************************)
InitApply ==
    /\ now_ms = MaxNowMs - ApplySteps * StepMs
    /\ g_cfg = [door_travel_ms |-> 200, door_settle_ms |-> 250, lock_pulse_ms |-> 500]
    /\ DoorBoot
    /\ LockBoot
    /\ PulseBoot
    /\ LoopBoot
    /\ RelayBoot
    /\ StoreBoot
    /\ ReducerBoot
    /\ WakeBoot
    /\ ResolveBoot
    /\ ApplyBoot
    /\ SwitchBoot
    /\ led = led_state_machine_init
    /\ MainBoot

NextApply == ApplyRun \/ ApplyTick \/ ApplyManual \/ Elapse

SpecApply == InitApply /\ [][NextApply]_vars

(***************************************************************************)
(* C12 as stated: a second application of the same reducer output, with no *)
(* tick and no manual command since the first, issues no device command    *)
(* and drives no hardware; and a device whose state equals the desired     *)
(* state is never commanded.                                               *)
(***************************************************************************)
C12_ApplierIdempotent ==
    /\ ap.again => (ap.cmds = {} /\ ap.acts = {})
    /\ ~ap.redundant

\* The part of C12 the code keeps: a device already in the desired state is
\* never commanded, a second application never pulses a relay coil, and it
\* commands the door only while the door has no settled state.
C12_SettledIdempotent ==
    /\ ~ap.redundant
    /\ ap.again => ap.acts \subseteq {DEVICE_ID_DOOR}
    /\ (ap.again /\ DEVICE_ID_DOOR \in ap.acts)
          => ap.motion \in {"DOOR_MOVING_OPEN", "DOOR_MOVING_CLOSE", "DOOR_POSTCLOSE_LOCK"}

C12_DoorRecommanded ==
    ap.again /\ DEVICE_ID_DOOR \in ap.acts /\ ap.motion = "DOOR_MOVING_OPEN"

C12_RelayRecommanded ==
    ap.again /\ ap.acts = {} /\ DEVICE_ID_RELAY1 \in ap.cmds

(***************************************************************************)
(* C20 as stated: a scheduled command the applier issues while the door is *)
(* in POSTCLOSE_LOCK leaves the door state machine as it was: the settle   *)
(* window and the lock pulse are neither aborted nor restarted.            *)
(***************************************************************************)
C20_PostcloseNotPreempted ==
    (ap.applied /\ ap.motion = "DOOR_POSTCLOSE_LOCK") => ap.door_kept


(***************************************************************************)
(* The main loop and the door switch: presses and releases at any point,   *)
(* ISR(INT1_vect), latch, debounce, re-arming, gate and sleep; the applier *)
(* commands nothing.                                                       *)
(***************************************************************************)
InitSwitch ==
    /\ now_ms = StartMs
    /\ g_cfg = [door_travel_ms |-> 1000, door_settle_ms |-> 300, lock_pulse_ms |-> 500]
    /\ DoorBoot
    /\ LockBoot
    /\ PulseBoot
    /\ loop_pc = "top"
    /\ in_config_mode = FALSE
    /\ door_debounce_active = FALSE
    /\ door_debounce_start_ms = 0
    /\ g_door_event = 0
    /\ EIMSK = [int0 |-> 1, int1 |-> 1]
    /\ lines \in [door_sw : BOOLEAN, rtc_int : {FALSE}, rtc_set : BOOLEAN]
    /\ RelayBoot
    /\ StoreBoot
    /\ ReducerBoot
    /\ WakeBoot
    /\ ResolveBoot
    /\ ApplyBoot
    /\ SwitchBoot
    /\ LedBoot
    /\ MainBoot

NextSwitch ==
    \/ LoopTop \/ LoopLatch \/ SwitchDebounce \/ LoopRearm \/ SwitchSchedule \/ LoopGate
    \/ LoopArm \/ system_sleep_until \/ LoopWake
    \/ ISR_INT0 \/ ISR_INT1 \/ SwitchChanges \/ RtcAlarmFires

SpecSwitch == InitSwitch /\ [][NextSwitch]_vars

\* The switch is held and nothing of its press is in flight: INT1 is masked,
\* no event is latched and debounce is idle.
PressServed ==
    /\ gpio_door_sw_is_asserted
    /\ EIMSK.int1 = 0
    /\ g_door_event = 0
    /\ ~door_debounce_active

(***************************************************************************)
(* C19 as stated: door_sm_toggle() is called only when the debounce window *)
(* has expired with the switch line asserted, so a press released before   *)
(* the expiry is not toggled; and a continuous press is toggled exactly    *)
(* once: never twice, and once whenever it is held with nothing of it left *)
(* in flight.                                                              *)
(***************************************************************************)
C19_OnePressOneToggle ==
    /\ press.ok
    /\ press.n <= 1
    /\ PressServed => press.n = 1

\* The half of C19 the code keeps: every call of door_sm_toggle() finds the
\* debounce window expired and the switch line asserted.
C19_ToggleOnlyOnExpiry == press.ok

\* One continuous press toggled twice: INT1 was unmasked with an event still
\* latched, so the press was latched again during the debounce window.
C19_ToggledTwice == gpio_door_sw_is_asserted /\ press.n = 2

\* A held press that began while INT1 was masked and is no longer in
\* flight: while the line stays asserted no step unmasks INT1, so the press
\* is never toggled.
C19_PressLost == PressServed /\ ~press.unmasked /\ press.n = 0

C19_LostStaysLost == [][(C19_PressLost /\ lines'.door_sw) => C19_PressLost']_vars


(***************************************************************************)
(* Specification of the alarm wake: the main loop with its interrupts, the *)
(* RTC minutes and alarm 1, and one event in the table (relay 1 on at      *)
(* midnight)                                                               *)
(***************************************************************************)
InitAlarm ==
    /\ now_ms = MaxNowMs - AlarmSteps * StepMs
    /\ LedBoot
    /\ MainBoot
    /\ ResolveBoot
    /\ ApplyBoot
    /\ SwitchBoot
    /\ g_cfg = [door_travel_ms |-> 1000, door_settle_ms |-> 300, lock_pulse_ms |-> 500]
    /\ DoorBoot
    /\ LockBoot
    /\ PulseBoot
    /\ LoopBoot
    /\ RelayBoot
    /\ g_cfg_events = [i \in Slots |->
                          IF i = 1
                          THEN mk_event(DEVICE_ID_RELAY1, 1, "REF_MIDNIGHT", 0, 1)
                          ELSE ZeroEvent]
    /\ g_schedule_etag = 0
    /\ store_obs = [op |-> "boot", ok |-> TRUE, etag |-> 0,
                    events |-> [i \in Slots |-> ZeroEvent], count |-> 0,
                    ref |-> 0, ev |-> NullEvent]
    /\ ReducerBoot
    /\ WakeBoot

NextAlarm ==
    \/ LoopTop \/ LoopLatch \/ LoopDebounce \/ LoopRearm \/ AlarmRtc \/ AlarmEval
    \/ LoopGate \/ AlarmArm \/ system_sleep_until
    \/ WakeClearFlag \/ WakeUnmaskInt0 \/ WakeUnmaskInt1
    \/ ISR_INT0 \/ ISR_INT1 \/ DoorSwitchChanges \/ AlarmMinute

SpecAlarm == InitAlarm /\ [][NextAlarm]_vars

\* The processor sleeps through the alarm: the line is low and INT0 masked.
C23_WakeEnabled == (loop_pc = "asleep" /\ gpio_rtc_int_is_asserted) => EIMSK.int0 = 1

\* After the three statements that follow the wake a released alarm line has
\* its interrupt unmasked.
C23_Rearmed == (loop_pc = "woke_int1" /\ ~gpio_rtc_int_is_asserted) => EIMSK.int0 = 1

\* The first pass over the scheduler block in the minute the alarm was armed
\* for reads that minute, enters the block and runs reducer and applier.
C23_MinuteEvaluated ==
    (loop_pc = "gate" /\ wake.armed /\ it.seen_minute /\ sched.now_minute = wake.minute)
        => (it.evaluated /\ it.ran /\ sched.last_minute = wake.minute)

(***************************************************************************)
(* C23: once the loop has armed the alarm for minute m and sleeps, the     *)
(* alarm's line going low wakes the processor (INT0 is unmasked whenever   *)
(* the processor sleeps with the line low), the statements after the wake  *)
(* clear the flag and unmask INT0 once the line is released, and the       *)
(* following pass over the scheduler block reads minute m, finds the       *)
(* minute changed and runs reducer and applier.                            *)
(***************************************************************************)
C23_AlarmWake == C23_WakeEnabled /\ C23_Rearmed /\ C23_MinuteEvaluated

\* The alarm armed for the running minute has matched and the processor
\* still sleeps, INT0 masked, both lines of the door switch at rest.
C23_SleptThrough ==
    /\ loop_pc = "asleep"
    /\ wake.armed /\ rtc.t % MINUTES_PER_DAY = wake.minute
    /\ gpio_rtc_int_is_asserted /\ EIMSK.int0 = 0
    /\ ~gpio_door_sw_is_asserted /\ EIMSK.int1 = 1

\* An alarm wake that goes as described: the alarm minute is evaluated with
\* INT0 unmasked again and the line released.
C23_WokenInTime ==
    /\ loop_pc = "gate" /\ wake.armed /\ it.seen_minute /\ it.ran
    /\ sched.now_minute = wake.minute
    /\ ~gpio_rtc_int_is_asserted /\ EIMSK.int0 = 1

(***************************************************************************)
(* C36 as stated: whenever the processor sleeps, INT0 (RTC alarm) and INT1 *)
(* (door switch) are both unmasked.                                        *)
(***************************************************************************)
C36_NoMaskedSleep == loop_pc = "asleep" => (EIMSK.int0 = 1 /\ EIMSK.int1 = 1)

\* The processor sleeps with INT0 masked before the alarm it has armed has
\* fired, the alarm line high.
C36_AsleepInt0Masked ==
    /\ loop_pc = "asleep" /\ EIMSK.int0 = 0 /\ EIMSK.int1 = 1
    /\ wake.armed /\ ~rtc.a1f /\ ~gpio_rtc_int_is_asserted

\* The processor sleeps with INT1 masked, the door switch released and its
\* event latched but not taken up.
C36_AsleepInt1Masked ==
    /\ loop_pc = "asleep" /\ EIMSK.int1 = 0 /\ EIMSK.int0 = 1
    /\ ~gpio_door_sw_is_asserted /\ g_door_event = 1

(***************************************************************************)
(* C25: after boot, a step of the loop takes INT0 from masked to unmasked  *)
(* only when the RTC alarm line reads de-asserted, and INT1 only when the  *)
(* door switch line reads de-asserted and, in the loop body, debounce is   *)
(* idle as well; the lines are as read when the mask is written.           *)
(***************************************************************************)
C25_UnmaskOnlyReleased ==
    [][/\ (EIMSK.int0 = 0 /\ EIMSK'.int0 = 1) =>
             (~gpio_rtc_int_is_asserted /\ lines' = lines)
       /\ (EIMSK.int1 = 0 /\ EIMSK'.int1 = 1) =>
             /\ ~gpio_door_sw_is_asserted
             /\ lines' = lines
             /\ loop_pc \in {"rearm", "woke_int1"}
             /\ loop_pc = "rearm" => ~door_debounce_active]_vars

\* C25 witness: the alarm armed for the running minute has fired, its flag is
\* cleared and INT0 unmasked again; the door switch has raised its interrupt
\* and INT1 is unmasked again, the switch released, before the loop has
\* taken the event up.
C25_Witness ==
    /\ loop_pc = "top"
    /\ wake.armed /\ rtc.t % MINUTES_PER_DAY = rtc.alarm
    /\ ~gpio_rtc_int_is_asserted /\ EIMSK.int0 = 1
    /\ g_door_event = 1 /\ ~gpio_door_sw_is_asserted /\ EIMSK.int1 = 1

\* The switch is still held when the loop comes back from the wake, and the
\* alarm has fired after its flag was looked at: both sources stay masked.
C25_HeldLowStaysMasked ==
    /\ loop_pc = "top"
    /\ gpio_door_sw_is_asserted /\ EIMSK.int1 = 0
    /\ gpio_rtc_int_is_asserted /\ EIMSK.int0 = 0

(***************************************************************************)
(* Specification of the two-event day: the scheduling loop from the minute *)
(* before sunrise on, the door opening at sunrise                          *)
(***************************************************************************)
InitDay ==
    /\ now_ms = MaxNowMs - ApplySteps * StepMs
    /\ g_cfg = [door_travel_ms |-> 200, door_settle_ms |-> 250, lock_pulse_ms |-> 500]
    /\ DoorBoot
    /\ LockBoot
    /\ PulseBoot
    /\ LoopBoot
    /\ RelayBoot
    /\ g_cfg_events = DayEvents
    /\ g_schedule_etag = 0
    /\ store_obs = [op |-> "boot", ok |-> TRUE, etag |-> 0,
                    events |-> [i \in Slots |-> ZeroEvent], count |-> 0,
                    ref |-> 0, ev |-> NullEvent]
    /\ ReducerBoot
    /\ WakeBoot
    /\ ResolveBoot
    /\ ApplyBoot
    /\ SwitchBoot
    /\ LedBoot
    /\ g_loc \in DayLocs
    /\ rtc = [set |-> TRUE, t |-> DayStart(g_loc), alarm |-> 0, a1f |-> FALSE]
    /\ sched = SchedLocals
    /\ it = ItBoot
    /\ since = [minute |-> TRUE, etag |-> FALSE, mut |-> FALSE]

NextDay ==
    \/ SchedTop \/ SchedPoll \/ SchedRtc \/ SchedEval \/ SchedGate \/ SchedWake
    \/ DayMinute \/ Elapse

SpecDay == InitDay /\ [][NextDay]_vars

\* now_minute lies from sunrise on and before sunset, in the UTC day or
\* across its midnight.
Daylight(m) ==
    IF sched.day_sol.sunrise_std <= sched.day_sol.sunset_std
    THEN sched.day_sol.sunrise_std <= m /\ m < sched.day_sol.sunset_std
    ELSE sched.day_sol.sunrise_std <= m \/ m < sched.day_sol.sunset_std

(***************************************************************************)
(* C24: with the two door events On at sunrise and Off at sunset, once the *)
(* sunrise open has completed and the loop goes to sleep between sunrise   *)
(* and sunset, the alarm is armed for the sunset minute.                   *)
(***************************************************************************)
C24_WakeAtSunset ==
    (/\ loop_pc = "asleep" /\ wake.armed
     /\ g_motion = "DOOR_IDLE_OPEN"
     /\ sched.day_sol.have
     /\ Daylight(wake_in.now_minute))
        => wake.minute = sched.day_sol.sunset_std

\* The door is open after the sunrise event and the processor sleeps with
\* the alarm armed for the minute after now.
C24_WakeNextMinute ==
    /\ loop_pc = "asleep" /\ wake.armed
    /\ g_motion = "DOOR_IDLE_OPEN" /\ g_settled_state = "DEV_STATE_ON"
    /\ rs.has_action[DEVICE_ID_DOOR] /\ rs.action[DEVICE_ID_DOOR] = 1
    /\ sched.day_sol.sunrise_std < sched.day_sol.sunset_std
    /\ Daylight(wake_in.now_minute)
    /\ wake_in.has_next /\ wake_in.next_min = sched.day_sol.sunrise_std
    /\ wake.minute = wake_in.now_minute + 1
    /\ wake.minute # sched.day_sol.sunset_std

\* Where the sun sets after UTC midnight the scheduler answers the sunset
\* minute, which is not after now, and the alarm is armed for the minute
\* after now all the same.
C24_SunsetAnsweredNotArmed ==
    /\ loop_pc = "asleep" /\ wake.armed
    /\ g_motion = "DOOR_IDLE_OPEN" /\ g_settled_state = "DEV_STATE_ON"
    /\ sched.day_sol.sunset_std < sched.day_sol.sunrise_std
    /\ Daylight(wake_in.now_minute)
    /\ wake_in.has_next /\ wake_in.next_min = sched.day_sol.sunset_std
    /\ wake.minute = wake_in.now_minute + 1
    /\ wake.minute # sched.day_sol.sunset_std

\* In the minute before sunrise the alarm is armed for the sunrise minute.
C24_SunriseArmed ==
    /\ loop_pc = "asleep" /\ wake.armed
    /\ wake_in.now_minute + 1 = sched.day_sol.sunrise_std
    /\ wake.minute = sched.day_sol.sunrise_std
    /\ g_motion = "DOOR_IDLE_UNKNOWN"


(***************************************************************************)
(* Specification of relay boot and manual override under the scheduling    *)
(* loop: boot at 08:00:00 or 08:00:30 with a valid RTC, relay_device_init, *)
(* the loop with reducer and applier, console relay commands, sleep and    *)
(* alarm, and the RTC counting half minutes                                *)
(***************************************************************************)
InitOverride ==
    /\ now_ms = MaxNowMs - ApplySteps * StepMs
    /\ g_cfg = [door_travel_ms |-> 200, door_settle_ms |-> 250, lock_pulse_ms |-> 500]
    /\ DoorBoot
    /\ LockBoot
    /\ PulseBoot
    /\ LoopBoot
    /\ \E sec \in {0, 30} : RelayInit(OverrideBoot * 60 + sec)
    /\ g_cfg_events = OverrideEvents
    /\ g_schedule_etag = 0
    /\ store_obs = [op |-> "boot", ok |-> TRUE, etag |-> 0,
                    events |-> [i \in Slots |-> ZeroEvent], count |-> 0,
                    ref |-> 0, ev |-> NullEvent]
    /\ ReducerBoot
    /\ WakeBoot
    /\ ResolveBoot
    /\ ApplyBoot
    /\ SwitchBoot
    /\ LedBoot
    /\ g_loc = [latitude_e4 |-> 300000, longitude_e4 |-> 0, tz |-> 0,
                honor_dst |-> FALSE]
    /\ rtc = [set |-> TRUE, t |-> OverrideBoot, alarm |-> 0, a1f |-> FALSE]
    /\ sched = SchedLocals
    /\ it = ItBoot
    /\ since = [minute |-> TRUE, etag |-> FALSE, mut |-> FALSE]

NextOverride ==
    \/ SchedTop \/ SchedPoll \/ ConsoleRelay \/ SchedRtc \/ SchedEval \/ SchedGate
    \/ SchedWake \/ OverrideHalfMinute

SpecOverride == InitOverride /\ [][NextOverride]_vars

\* In every state the epoch the relays read is the RTC's minute, to the half
\* minute.
OverrideClockCoherent ==
    /\ rtc.set
    /\ rtc_epoch \in {rtc.t * 60, rtc.t * 60 + 30}


(***************************************************************************)
(* C40 as stated: after boot with a valid RTC and no manual command, when  *)
(* reducer and applier have run, each relay with a governing event is in   *)
(* the state of that event's action, also when the event's time is earlier *)
(* than the boot time.                                                     *)
(***************************************************************************)
C40_BootReconciles ==
    (relay_obs.call = "init" /\ loop_pc = "gate" /\ it.ran) =>
        \A id \in {DEVICE_ID_RELAY1, DEVICE_ID_RELAY2} :
            rs.has_action[id] => device_get_state_by_id(id) = apply_want(rs, id)

\* What the code does after boot, no manual command made: a relay is in its
\* governing event's state only if that event is later than the boot epoch,
\* which relay_device_init recorded as an override; else it stays OFF.
C40_OnlyLaterThanBoot ==
    (relay_obs.call = "init" /\ loop_pc = "gate" /\ it.ran) =>
        /\ relay1_last_override_time = relay_obs.t0_1
        /\ relay2_last_override_time = relay_obs.t0_2
        /\ relay_obs.t0_1 >= OverrideBoot * 60
        /\ rs.has_action[DEVICE_ID_RELAY1] =>
              relay1_state = (IF rs.when[DEVICE_ID_RELAY1] > relay_obs.t0_1
                              THEN apply_want(rs, DEVICE_ID_RELAY1)
                              ELSE "DEV_STATE_OFF")
        /\ rs.has_action[DEVICE_ID_RELAY2] =>
              relay2_state = (IF rs.when[DEVICE_ID_RELAY2] > relay_obs.t0_2
                              THEN apply_want(rs, DEVICE_ID_RELAY2)
                              ELSE "DEV_STATE_OFF")

\* The first run after boot, at 08:00: relay 1's governing event, ON at 07:59,
\* is not adopted.
C40_StaleAtBoot ==
    /\ relay_obs.call = "init" /\ loop_pc = "gate" /\ it.ran
    /\ rtc.t = OverrideBoot
    /\ rs.has_action[DEVICE_ID_RELAY1] /\ rs.action[DEVICE_ID_RELAY1] = 1
    /\ rs.when[DEVICE_ID_RELAY1] = (OverrideBoot - 1) * 60
    /\ relay1_state = "DEV_STATE_OFF"

\* Relay 2's event of 08:01, later than the boot, is adopted.
C40_LaterAdopted ==
    /\ relay_obs.call = "init" /\ loop_pc = "gate" /\ it.ran
    /\ rs.has_action[DEVICE_ID_RELAY2]
    /\ relay2_state = "DEV_STATE_ON" /\ relay1_state = "DEV_STATE_OFF"
    /\ rs.action[DEVICE_ID_RELAY1] = 1

(***************************************************************************)
(* C31: after a manual set_state of relay 1 at epoch t_override, a run of  *)
(* reducer and applier whose governing event for the relay has             *)
(* when <= t_override leaves the relay in the manual state, and a run      *)
(* whose governing event has when > t_override leaves it in the scheduled  *)
(* state; no run writes the override time, which stays t_override.         *)
(***************************************************************************)
C31_Run ==
    LET id == DEVICE_ID_RELAY1 IN
    /\ relay1_last_override_time = relay_obs.t0_1
    /\ relay1_last_override_time' = relay_obs.t0_1
    /\ relay_obs' = relay_obs
    /\ rs'.has_action[id] =>
          relay1_state' = (IF rs'.when[id] <= relay_obs.t0_1
                           THEN relay_obs.state
                           ELSE apply_want(rs', id))

C31_OverridePersistsThenExpires ==
    [][(relay_obs.call = "set" /\ loop_pc = "eval" /\ it'.ran) => C31_Run]_vars

\* C31 witness: relay 1 was set ON by hand before 08:02, and the run at
\* 08:02, whose governing event is the OFF of 08:02, has switched it OFF.
C31_Witness ==
    /\ relay_obs.call = "set" /\ relay_obs.state = "DEV_STATE_ON"
    /\ loop_pc = "gate" /\ it.ran
    /\ rs.has_action[DEVICE_ID_RELAY1] /\ rs.action[DEVICE_ID_RELAY1] = 0
    /\ rs.when[DEVICE_ID_RELAY1] > relay_obs.t0_1
    /\ relay1_state = "DEV_STATE_OFF"
    /\ relay1_last_override_time = relay_obs.t0_1

\* Relay 1 was set OFF by hand after the boot; the run at 08:01 wants it ON
\* for the event of 07:59 and leaves it OFF.
C31_Persists ==
    /\ relay_obs.call = "set" /\ relay_obs.state = "DEV_STATE_OFF"
    /\ loop_pc = "gate" /\ it.ran /\ rtc.t = OverrideBoot + 1
    /\ rs.has_action[DEVICE_ID_RELAY1] /\ rs.action[DEVICE_ID_RELAY1] = 1
    /\ rs.when[DEVICE_ID_RELAY1] <= relay_obs.t0_1
    /\ relay1_state = "DEV_STATE_OFF"

\* Relay 1 was set ON by hand at 08:02:00, the second of the OFF event; the
\* run at 08:02 leaves it ON.
C31_SameSecond ==
    /\ relay_obs.call = "set" /\ relay_obs.state = "DEV_STATE_ON"
    /\ loop_pc = "gate" /\ it.ran
    /\ rs.has_action[DEVICE_ID_RELAY1] /\ rs.action[DEVICE_ID_RELAY1] = 0
    /\ rs.when[DEVICE_ID_RELAY1] = relay_obs.t0_1
    /\ relay1_state = "DEV_STATE_ON"


(***************************************************************************)
(* Specification of the LED blink: set(LED_BLINK, color, count) at boot    *)
(* and at any later moment, ticks at rising uptime                         *)
(***************************************************************************)
InitLed ==
    /\ now_ms = 0
    /\ CfgDefault
    /\ DoorBoot
    /\ LockBoot
    /\ PulseBoot
    /\ LoopBoot
    /\ RelayBoot
    /\ StoreBoot
    /\ ReducerBoot
    /\ WakeBoot
    /\ ResolveBoot
    /\ ApplyBoot
    /\ SwitchBoot
    /\ MainBoot
    /\ \E color \in {"LED_GREEN", "LED_RED"}, count \in BlinkCounts :
          led = led_state_machine_set(led_state_machine_init, "LED_BLINK", color, count)

NextLed == LedTick \/ LedSet

SpecLed == InitLed /\ [][NextLed]_vars

(***************************************************************************)
(* C33: in LED_BLINK a tick toggles the LED exactly when 250 ms or more    *)
(* have passed since the last toggle (or since the first tick after the    *)
(* set); the cycle counter goes up by one on each ON-to-OFF edge of a      *)
(* finite blink and on no other tick; the mode becomes LED_OFF exactly on  *)
(* the edge that completes cycle N, and until then the counter is below N; *)
(* LED_OFF stays LED_OFF with the LED off under ticks; with N = 0 a tick   *)
(* never leaves LED_BLINK.  From the set on, ticks at any fixed period     *)
(* switch the LED on exactly N times and end in LED_OFF.                   *)
(***************************************************************************)
C33_Tick ==
    LET l == led
        m == led'
        N == led.g_cycles_remaining
        due == l.g_blink_t0_ms # 0 /\ now_ms' - l.g_blink_t0_ms >= BLINK_PERIOD_MS
        fall == l.g_led_on /\ ~m.g_led_on
    IN  /\ l.g_mode = "LED_BLINK" =>
              /\ (m.g_led_on # l.g_led_on) <=> due
              /\ m.g_cycle_counter = l.g_cycle_counter + (IF fall /\ N > 0 THEN 1 ELSE 0)
              /\ m.g_mode = (IF fall /\ N > 0 /\ l.g_cycle_counter + 1 = N
                             THEN "LED_OFF" ELSE "LED_BLINK")
              /\ m.out = (IF m.g_led_on THEN (IF l.g_color = "LED_GREEN" THEN "green"
                                                                        ELSE "red")
                          ELSE "off")
              /\ m.g_cycles_remaining = N /\ m.g_color = l.g_color
        /\ l.g_mode = "LED_OFF" =>
              /\ m.g_mode = "LED_OFF" /\ ~m.g_led_on /\ m.out = "off"
              /\ m.g_cycle_counter = l.g_cycle_counter

C33_Counted ==
    LET N == led.g_cycles_remaining IN
    /\ led.g_mode \in {"LED_BLINK", "LED_OFF"}
    /\ led.g_mode = "LED_BLINK" =>
          (IF N = 0 THEN led.g_cycle_counter = 0 ELSE led.g_cycle_counter < N)
    /\ led.g_mode = "LED_OFF" =>
          (N > 0 /\ led.g_cycle_counter = N /\ ~led.g_led_on /\ led.out = "off")
    /\ (led.g_mode = "LED_BLINK" /\ led.g_blink_t0_ms = 0 /\ ~led.g_led_on
           /\ led.g_cycle_counter = 0) =>
          \A k \in TickGaps :
              LET r == BlinkRun(led, now_ms, k * StepMs, 2 * MaxSteps, 0)
              IN  IF N = 0
                  THEN r.led.g_mode = "LED_BLINK" /\ r.ons > Cardinality(BlinkCounts)
                  ELSE r.led.g_mode = "LED_OFF" /\ r.ons = N

C33_BlinkCount == []C33_Counted /\ [][now_ms' # now_ms => C33_Tick]_vars

\* C33 witness: a blink of two cycles has just completed; the falling edge
\* of the second cycle turned the mode to LED_OFF.
C33_Witness ==
    /\ led.g_mode = "LED_OFF" /\ led.g_cycles_remaining = 2
    /\ led.g_cycle_counter = 2 /\ led.out = "off"
    /\ led.g_blink_t0_ms = now_ms

\* An endless blink in its on phase late in the run.
C33_EndlessOn ==
    /\ led.g_mode = "LED_BLINK" /\ led.g_cycles_remaining = 0
    /\ led.g_led_on /\ now_ms = MaxNowMs


\* The resolved minutes of the events of the table under the scheduler's
\* snapshot.
EventMinutes(events, sol) ==
    {resolve_when(events[i].when, sol).minute :
        i \in {j \in Slots : events[j].refnum # 0 /\ resolve_when(events[j].when, sol).ok}}

\* The wake minute skips no event: no event's resolved minute lies strictly
\* between the minute the loop read and the minute it armed.
C38_NoEventSkipped ==
    (loop_pc = "asleep" /\ wake.armed) =>
        /\ wake.minute = wake_min_of(wake_in.now_minute,
                                     next_event_minute(g_cfg_events, sched.day_sol))
        /\ \A m \in EventMinutes(g_cfg_events, sched.day_sol) :
              ~(wake_in.now_minute < m /\ m < wake.minute)

\* The same of the wake computation alone, over tables, snapshots and minutes
\* of the reducer's samples.
C38_NoEventBetween ==
    LET w == wake_min_of(red_in.now_minute, next_event_minute(red_in.events, red_in.sol))
    IN  /\ w \in 0..(MINUTES_PER_DAY - 1)
        /\ \A m \in EventMinutes(red_in.events, red_in.sol) :
              ~(red_in.now_minute < m /\ m < w)

\* The loop is awake at every event's minute: the processor does not sleep
\* in an event's resolved minute, no alarm pending, unless the scheduler
\* block has evaluated that minute.
C38_EventMinuteEvaluated ==
    (loop_pc = "asleep" /\ ~rtc.a1f
       /\ (rtc.t % MINUTES_PER_DAY) \in EventMinutes(g_cfg_events, sched.day_sol))
        => sched.last_minute = rtc.t % MINUTES_PER_DAY

(***************************************************************************)
(* C38 as stated: the armed wake minute skips no event (no event's         *)
(* resolved minute lies strictly between now_minute and wake_min), and so  *)
(* the loop is awake and evaluates the schedule at every event's resolved  *)
(* minute.                                                                 *)
(***************************************************************************)
C38_WakeSkipsNoEvent == C38_NoEventSkipped /\ C38_EventMinuteEvaluated

\* The sunrise minute has begun after the loop read the minute before it; the
\* alarm was then armed for the sunrise minute, already running, and the
\* processor sleeps through the door's sunrise event.
C38_SleepsThroughSunrise ==
    /\ loop_pc = "asleep" /\ wake.armed /\ ~rtc.a1f
    /\ wake_in.now_minute + 1 = sched.day_sol.sunrise_std
    /\ wake.minute = sched.day_sol.sunrise_std
    /\ rtc.t % MINUTES_PER_DAY = sched.day_sol.sunrise_std
    /\ sched.last_minute = wake_in.now_minute
    /\ g_motion = "DOOR_IDLE_UNKNOWN"


(***************************************************************************)
(* Specification of the alarm wake with I2C transfers that may fail while  *)
(* the alarm is armed                                                      *)
(***************************************************************************)
NextArm == NextAlarm \/ AlarmArmFails

SpecArm == InitAlarm /\ [][NextArm]_vars

(***************************************************************************)
(* C37 as stated: the processor sleeps only with alarm 1 armed for the     *)
(* wake minute the loop has just computed; after a failed arming the loop  *)
(* does not sleep.                                                         *)
(***************************************************************************)
C37_SleepsOnlyArmed ==
    loop_pc = "asleep" =>
        /\ wake.armed
        /\ wake.minute = wake_min_of(wake_in.now_minute,
                                     [has |-> wake_in.has_next,
                                      minute |-> wake_in.next_min])
        /\ rtc.alarm = wake.minute

\* After a failed arming the processor sleeps with the alarm interrupt
\* disabled and both lines at rest: only the door switch can wake it.
C37_AsleepUnarmed ==
    /\ loop_pc = "asleep" /\ ~wake.armed
    /\ ~gpio_rtc_int_is_asserted /\ ~gpio_door_sw_is_asserted
    /\ EIMSK.int0 = 1 /\ EIMSK.int1 = 1

\* After a failed arming the processor sleeps with the alarm still set for
\* the minute that is running, which will not match again today.
C37_AsleepStaleAlarm ==
    /\ loop_pc = "asleep" /\ wake.armed
    /\ wake.minute = rtc.t % MINUTES_PER_DAY
    /\ wake_in.now_minute = rtc.t % MINUTES_PER_DAY
    /\ ~rtc.a1f

=============================================================================
